---- MODULE Spec2Model ----
(***************************************************************************)
(* A model of the kiosk backend's rPPG pipeline: the rolling signal        *)
(* buffers (processors/rppg_processor.py, core/rppg_processor.py), the     *)
(* spectral estimator's control flow, the vitals smoother / diagnosis      *)
(* classifier (services/diagnosis_service.py) and the monitoring session   *)
(* with its registry and stored session record (services/                  *)
(* monitoring_service.py, api/routes.py, services/database_service.py).    *)
(*                                                                         *)
(* Numbers.  Python floats are modelled by exact integers in hundredths:   *)
(* a bpm of 78.26 is 7826, a confidence of 0.2 is 20, a stress of 0.75 is  *)
(* 75.  Means are compared by cross-multiplication, so no division         *)
(* truncates a comparison.  The spectrum itself (detrend, filtfilt, fft)   *)
(* is not computed: the peak bin and the confidence that the transform     *)
(* yields, and whether a numerical stage raises, are inputs of the         *)
(* estimator drawn from the values the code can produce.                   *)
(***************************************************************************)
EXTENDS Integers, Sequences, FiniteSets, TLC

(***************************************************************************)
(* Bounds of the model.                                                    *)
(***************************************************************************)
\* window_size passed to the stand-alone processors of BufferSpec
WindowSize == 3
\* additions made to each stand-alone buffer in BufferSpec
MaxAdds == 5

(***************************************************************************)
(* Program constants.                                                      *)
(***************************************************************************)
\* FastRPPGProcessor.__init__(fps=30, window_size=120)
DefaultFps == 30
DefaultWindowSize == 120
\* compute_heart_rate's ready threshold in FastRPPGProcessor
FastReadyThreshold == 40

\* analyze_vitals calls made on the stand-alone diagnosis object in VitalsSpec
MaxCalls == 9
\* times the estimate given to analyze_vitals changes in a run of VitalsSpec
MaxSwitches == 2
\* frames a session processes
MaxFrames == 46
\* frames of a session that add no sample to its buffer
MaxMisses == 3
\* steps the clock takes in a run
MaxClockSteps == 2
\* steps the clock takes in a run of LifecycleSpec
MaxLifecycleClockSteps == 1
\* frames a session processes in LifecycleSpec
MaxLifecycleFrames == 2
\* stop requests made in a run of LifecycleSpec
MaxStops == 2
\* times the estimate given to the first object changes in a run of TwinSpec
MaxTwinSwitches == 1
\* entries of a heart-rate history of TwinSpec before the estimates vary
TwinWarmUp == 4
\* frames the second session processes in PairSpec
MaxPairFrames == 2
\* stop requests made in a run of PairSpec
MaxPairStops == 1
\* window_size of the stand-alone RPPGProcessor of EstimatorSpec
CoreWindowSize == 10
\* samples added beyond an estimator's ready threshold in EstimatorSpec
ExtraSamples == 2

\* a genuine measurement (a positive mean green intensity)
GenuineSample == 1
\* raw samples fed to the stand-alone buffers (mean green intensities)
Samples == {1, 2}

VARIABLES
    fast,           \* a FastRPPGProcessor: [window_size, signal_buffer]
    core,           \* an RPPGProcessor: [window_size, signal_buffer, timestamps]
    added,          \* history: the values given to add_signal / add_signal_point
    hr_call,        \* history: the compute_heart_rate call of the last step, if any
    extract_call,   \* history: the last stand-alone extract_signal call
    diagnosis,      \* a RealTimeMedicalDiagnosis: its histories and advice
    vitals_call,    \* history: the last analyze_vitals call and its result
    twin,           \* a second RealTimeMedicalDiagnosis, with the history of the
                    \* last analyze_vitals call made on it
    advice_call,    \* history: the last get_ai_medical_advice_async call begun
    sessions,       \* the RealTimeMonitoringSession objects, by session id
    monitoring_sessions,  \* the registry: the ids it maps to their session
    db_sessions,    \* the stored session records, by session id
    db_physio,      \* the stored physiological data rows, oldest first
    tasks,          \* the advice tasks created and not yet finished
    now,            \* the clock (time.time(), datetime.utcnow()), in seconds
    used_ids,       \* the session ids uuid4 has produced
    http,           \* history: the response to the last endpoint request
    stop_call,      \* history: the last stop request, the state around it, and
                    \* the <<id, route>> pairs of the stops carried out so far
    frame_call,     \* history: the last process_frame call and what it returned
    loops           \* the websocket frame loop of each session id: "none" before a
                    \* websocket is accepted, "running" inside the while, "ended"

procVars == <<fast, core, added, hr_call, extract_call>>
diagVars == <<diagnosis, vitals_call, twin, advice_call>>
sessVars == <<sessions, monitoring_sessions, db_sessions, db_physio, tasks, now,
              used_ids, http, stop_call, frame_call, loops>>
vars == <<fast, core, added, hr_call, extract_call, diagnosis, vitals_call, twin,
          advice_call,
          sessions, monitoring_sessions, db_sessions, db_physio, tasks, now,
          used_ids, http, stop_call, frame_call, loops>>

(***************************************************************************)
(* Sequence helpers.                                                       *)
(***************************************************************************)
\* the last n elements of s (all of s if it is shorter): Python's s[-n:]
LastN(s, n) == IF Len(s) <= n THEN s ELSE SubSeq(s, Len(s) - n + 1, Len(s))

(***************************************************************************)
(* Rolling signal buffers.                                                 *)
(***************************************************************************)
\* collections.deque(maxlen=m).append(v): append on the right and, when the
\* deque was full, discard one element on the left.
DequeAppendDropNewest(d, maxlen, v) ==
    IF Len(d) >= maxlen THEN d ELSE Append(d, v)

DequeAppend(d, maxlen, v) ==
    IF maxlen = 0 THEN d
    ELSE IF Len(d) >= maxlen THEN Append(Tail(d), v)
    ELSE Append(d, v)

\* RPPGProcessor.add_signal_point's list handling: append, then pop(0) when
\* the list grew past window_size.
ListAppendTrim(buf, window_size, v) ==
    LET grown == Append(buf, v)
    IN  IF Len(grown) > window_size THEN Tail(grown) ELSE grown

NewFastRPPGProcessor(window_size) ==
    [window_size |-> window_size, signal_buffer |-> <<>>]

NewRPPGProcessor(window_size) ==
    [window_size |-> window_size, signal_buffer |-> <<>>, timestamps |-> <<>>]

NoCall == [proc |-> "none"]

NoExtractCall == [made |-> FALSE]

\* FastRPPGProcessor.add_signal(signal_value); at most `limit` additions
AddSignal(v, limit) ==
    /\ Len(added.fast) < limit
    /\ fast' = [fast EXCEPT !.signal_buffer =
                   DequeAppend(fast.signal_buffer, fast.window_size, v)]
    /\ added' = [added EXCEPT !.fast = Append(@, v)]
    /\ hr_call' = NoCall
    /\ UNCHANGED <<core, extract_call, diagVars, sessVars>>

\* RPPGProcessor.add_signal_point(signal_value, timestamp); at most `limit`
\* additions
AddSignalPoint(v, t, limit) ==
    /\ Len(added.core) < limit
    /\ core' = [core EXCEPT
                   !.signal_buffer = ListAppendTrim(core.signal_buffer, core.window_size, v),
                   !.timestamps = ListAppendTrim(core.timestamps, core.window_size, t)]
    /\ added' = [added EXCEPT !.core = Append(@, v)]
    /\ hr_call' = NoCall
    /\ UNCHANGED <<fast, extract_call, diagVars, sessVars>>

(***************************************************************************)
(* Spectral estimator.  `env` is what the numerical stages do on this      *)
(* call: env.fail names the stage that raises ("none" when none does),     *)
(* env.peak the in-band bin of largest magnitude, env.confidence the value *)
(* of min(peak magnitude / mean magnitude, 1.0) in hundredths.             *)
(***************************************************************************)
\* hr_mask without its upper edge: positive_freq >= 0.8 alone
InBandBinsNoUpperEdge(L, fps) ==
    {k \in 1..((L - 1) \div 2) : 8 * L <= 10 * k * fps}

\* fftfreq(L, 1/fps): the bins k with a strictly positive frequency
\* k*fps/L, restricted by hr_mask to 0.8 <= k*fps/L <= 3.0
InBandBins(L, fps) ==
    {k \in 1..((L - 1) \div 2) : 8 * L <= 10 * k * fps /\ k * fps <= 3 * L}

\* the values env.peak may take for a window of L samples
PeakChoices(L, fps) ==
    IF InBandBins(L, fps) = {} THEN {0} ELSE InBandBins(L, fps)

\* bpm = hr_freq[peak_idx] * 60.0, in hundredths of a BPM
BinBpm(k, L, fps) == (6000 * k * fps) \div L

FastStages == <<"detrend", "filtfilt", "fft", "peak">>
CoreStages == <<"detrend", "filtfilt", "hann", "fft", "peak">>

StageIndex(stages, name) ==
    IF \E i \in 1..Len(stages) : stages[i] = name
    THEN CHOOSE i \in 1..Len(stages) : stages[i] = name
    ELSE 0

\* the stages entered when stage env.fail raises: all of them when none does
StagesRun(stages, fail) ==
    IF StageIndex(stages, fail) = 0 THEN stages
    ELSE SubSeq(stages, 1, StageIndex(stages, fail))

ZeroResult(stages) ==
    [raised |-> FALSE, bpm |-> 0, confidence |-> 0, stages |-> stages]

RaisedResult(stages) ==
    [raised |-> TRUE, bpm |-> 0, confidence |-> 0, stages |-> stages]

\* the spectral result proper (lines 53-64 of the fast estimator)
PeakResult(L, fps, env, stages) ==
    IF InBandBins(L, fps) = {} THEN ZeroResult(stages)
    ELSE [raised |-> FALSE, bpm |-> BinBpm(env.peak, L, fps),
          confidence |-> env.confidence, stages |-> stages]

\* FastRPPGProcessor.compute_heart_rate with its try/except removed
FastComputeHeartRateNoExcept(buffer, fps, env) ==
    IF Len(buffer) < FastReadyThreshold THEN ZeroResult(<<>>)
    ELSE IF StageIndex(FastStages, env.fail) # 0
         THEN RaisedResult(StagesRun(FastStages, env.fail))
         ELSE PeakResult(Len(buffer), fps, env, FastStages)

\* FastRPPGProcessor.compute_heart_rate with the ready test off by one
FastComputeHeartRateLateGuard(buffer, fps, env) ==
    IF Len(buffer) < FastReadyThreshold - 1 THEN ZeroResult(<<>>)
    ELSE IF StageIndex(FastStages, env.fail) # 0
         THEN ZeroResult(StagesRun(FastStages, env.fail))
         ELSE PeakResult(Len(buffer), fps, env, FastStages)

\* FastRPPGProcessor.compute_heart_rate ready at the 30 samples that
\* process_frame asks for
FastComputeHeartRateReadyAtThirty(buffer, fps, env) ==
    IF Len(buffer) < 30 THEN ZeroResult(<<>>)
    ELSE IF StageIndex(FastStages, env.fail) # 0
         THEN ZeroResult(StagesRun(FastStages, env.fail))
         ELSE PeakResult(Len(buffer), fps, env, FastStages)

\* FastRPPGProcessor.compute_heart_rate: (0, 0) below 40 samples; the whole
\* numerical part sits in one try whose except returns (0, 0)
FastComputeHeartRate(buffer, fps, env) ==
    IF Len(buffer) < FastReadyThreshold THEN ZeroResult(<<>>)
    ELSE IF StageIndex(FastStages, env.fail) # 0
         THEN ZeroResult(StagesRun(FastStages, env.fail))
         ELSE PeakResult(Len(buffer), fps, env, FastStages)

\* RPPGProcessor.compute_heart_rate: (0, 0) below window_size samples;
\* detrend, the Hann window and the transform are outside any try, only
\* filtfilt is guarded, and its failure falls back to the detrended signal
CoreComputeHeartRate(buffer, window_size, fps, env) ==
    IF Len(buffer) < window_size THEN ZeroResult(<<>>)
    ELSE IF env.fail \in {"detrend", "hann", "fft", "peak"}
         THEN RaisedResult(StagesRun(CoreStages, env.fail))
         ELSE PeakResult(Len(buffer), fps, env, CoreStages)

Failures == {"none", "detrend", "filtfilt", "fft", "peak"}
Confidences == {0, 19, 20, 50, 100}

\* the float nan: what 0.0 / 0.0 evaluates to, with a warning and no exception
NaN == 0 - 1

\* a < b on floats: False when either is nan
FloatLess(a, b) == a # NaN /\ b # NaN /\ a < b

\* what the numerical stages may do on a window of L samples whose samples
\* vary.  The values of the samples are not modelled: whether a window is
\* flat (all its samples equal) is part of env.
Envs(L, fps) ==
    [fail : Failures, peak : PeakChoices(L, fps), confidence : Confidences,
     flat : {FALSE}]

\* what the numerical stages may do on a flat window: nothing raises.  When
\* detrend leaves exact zeros every magnitude is 0, argmax picks the first
\* in-band bin and hr_magnitude[peak_idx] / np.mean(magnitude) is 0.0 / 0.0,
\* so min(nan, 1.0) is nan; when detrend leaves rounding residue the ratio is
\* that of the residue's spectrum, any value min(., 1.0) allows.
FlatEnvs(L, fps) ==
    [fail : {"none"}, peak : PeakChoices(L, fps),
     confidence : Confidences \cup {NaN}, flat : {TRUE}]

\* a call of FastRPPGProcessor.compute_heart_rate on the stand-alone processor
FastCompute(env) ==
    /\ UNCHANGED <<fast, core, added, extract_call, diagVars, sessVars>>
    /\ hr_call' = [proc |-> "fast",
                   len |-> Len(fast.signal_buffer),
                   fail |-> env.fail,
                   flat |-> env.flat,
                   result |-> FastComputeHeartRate(fast.signal_buffer, DefaultFps, env),
                   before |-> fast.signal_buffer,
                   after |-> fast'.signal_buffer]

\* a call of RPPGProcessor.compute_heart_rate on the stand-alone processor
CoreCompute(env) ==
    /\ UNCHANGED <<fast, core, added, extract_call, diagVars, sessVars>>
    /\ hr_call' = [proc |-> "core",
                   len |-> Len(core.signal_buffer),
                   fail |-> env.fail,
                   flat |-> env.flat,
                   result |-> CoreComputeHeartRate(core.signal_buffer,
                                                   core.window_size, DefaultFps, env),
                   before |-> core.signal_buffer,
                   after |-> core'.signal_buffer]

(***************************************************************************)
(* Vitals smoother and diagnosis classifier (RealTimeMedicalDiagnosis).    *)
(* bpm, confidence and stress are in hundredths.                           *)
(***************************************************************************)
Min(a, b) == IF a <= b THEN a ELSE b

RECURSIVE Sum(_)
Sum(s) == IF Len(s) = 0 THEN 0 ELSE Head(s) + Sum(Tail(s))

\* Python's s[-8:-4] on a sequence of at least 8 elements
EarlierFour(s) == SubSeq(s, Len(s) - 7, Len(s) - 4)

\* n / d rounded to the nearest integer, an exact half going to the even
\* neighbour (round() on a value that is exactly representable); n, d >= 0
RoundDiv(n, d) ==
    LET q == n \div d
        r == n % d
    IN  IF 2 * r < d THEN q
        ELSE IF 2 * r > d THEN q + 1
        ELSE IF q % 2 = 0 THEN q ELSE q + 1

\* round(x, 1) of a value in hundredths, as a value in hundredths
RoundTenth(x) == 10 * RoundDiv(x, 10)

HistoryMaxLen == 15

InitialAdvice == "AI medical assessment will appear here..."
PositionAdvice ==
    "Please position yourself clearly in front of the camera for analysis."

\* RealTimeMedicalDiagnosis.__init__
NewDiagnosis ==
    [bpm_history |-> <<>>, stress_history |-> <<>>,
     last_ai_advice |-> InitialAdvice, recommendation_history |-> <<>>,
     ai_processing |-> FALSE, last_vital_hash |-> <<>>, last_ai_call_time |-> 0]

\* the test that opens analyze_vitals
RejectsOnlyZeroBpm(bpm, confidence) == bpm = 0

Rejects(bpm, confidence) == bpm = 0 \/ FloatLess(confidence, 20)

\* the snapshot analyze_vitals returns for a rejected estimate
RejectedSnapshot ==
    [heart_rate |-> 0, stress_level |-> 0, fatigue_risk |-> "Unknown",
     health_status |-> "No data", alerts |-> <<"Detecting face...">>,
     confidence |-> 0, ai_advice |-> PositionAdvice, recommendations |-> <<>>]

\* the stress proxy without the clamp of the confidence at 1.0
StressOfUnclamped(confidence) == 100 - confidence

\* stress_level = 1.0 - min(confidence, 1.0)
StressOf(confidence) == 100 - Min(confidence, 100)

\* heart rate analysis: the alert and the health status
HeartRateAlert(bpm) ==
    IF bpm > 10000 THEN "Elevated heart rate"
    ELSE IF bpm < 5000 THEN "Low heart rate"
    ELSE "Normal heart rate"

HealthStatusLowIsNormal(bpm) ==
    IF bpm > 10000 THEN "Warning" ELSE "Normal"

HealthStatus(bpm) ==
    IF bpm > 10000 THEN "Warning"
    ELSE IF bpm < 5000 THEN "Warning"
    ELSE "Normal"

\* stress analysis: avg_stress = mean(stress_history) against 0.7 and 0.5
StressClassInclusive(stress_history) ==
    LET total == Sum(stress_history)
        n == Len(stress_history)
    IN  IF n = 0 THEN "Low"
        ELSE IF total >= 70 * n THEN "High"
        ELSE IF total >= 50 * n THEN "Medium"
        ELSE "Low"

StressClass(stress_history) ==
    LET total == Sum(stress_history)
        n == Len(stress_history)
    IN  IF n = 0 THEN "Low"
        ELSE IF total > 70 * n THEN "High"
        ELSE IF total > 50 * n THEN "Medium"
        ELSE "Low"

StressAlert(class) ==
    IF class = "High" THEN "High stress detected"
    ELSE IF class = "Medium" THEN "Moderate stress"
    ELSE "Low stress"

\* fatigue detection: mean(history[-8:-4]) - mean(history[-4:]) > 8
FatigueTrendNeedsNine(bpm_history) ==
    /\ Len(bpm_history) >= 9
    /\ Sum(EarlierFour(bpm_history)) - Sum(LastN(bpm_history, 4)) > 4 * 800

\* the fatigue rule comparing the oldest four entries kept, not history[-8:-4]
FatigueTrendFromOldest(bpm_history) ==
    /\ Len(bpm_history) >= 8
    /\ Sum(SubSeq(bpm_history, 1, 4)) - Sum(LastN(bpm_history, 4)) > 4 * 800

FatigueTrend(bpm_history) ==
    /\ Len(bpm_history) >= 8
    /\ Sum(EarlierFour(bpm_history)) - Sum(LastN(bpm_history, 4)) > 4 * 800

\* fatigue_risk: set by the stress rule, then overwritten by the fatigue rule
FatigueRiskStressLast(class, fatigued) ==
    IF class = "High" THEN "High"
    ELSE IF class = "Medium" THEN "Medium"
    ELSE IF fatigued THEN "High" ELSE "Low"

FatigueRisk(class, fatigued) ==
    IF fatigued THEN "High"
    ELSE IF class = "High" THEN "High"
    ELSE IF class = "Medium" THEN "Medium"
    ELSE "Low"

\* _get_current_recommendations: the recommendations kept so far
CurrentRecommendations(d) == d.recommendation_history

\* analyze_vitals with a health status that looks at the stored advice
AnalyzeVitalsAdviceAware(d, bpm, confidence) ==
    IF Rejects(bpm, confidence)
    THEN [diagnosis |-> d, result |-> RejectedSnapshot]
    ELSE
      LET bpms == DequeAppend(d.bpm_history, HistoryMaxLen, bpm)
          stresses == DequeAppend(d.stress_history, HistoryMaxLen, StressOf(confidence))
          class == StressClass(stresses)
          fatigued == FatigueTrend(bpms)
          alerts == <<HeartRateAlert(bpm), StressAlert(class)>>
                    \o (IF fatigued THEN <<"Possible fatigue detected">> ELSE <<>>)
      IN  [diagnosis |-> [d EXCEPT !.bpm_history = bpms, !.stress_history = stresses],
           result |->
             [heart_rate |-> RoundTenth(bpm),
              stress_level |-> RoundDiv(Sum(stresses), Len(stresses)),
              fatigue_risk |-> FatigueRisk(class, fatigued),
              health_status |-> IF d.last_ai_advice = InitialAdvice
                                THEN HealthStatus(bpm) ELSE "Warning",
              alerts |-> alerts,
              confidence |-> confidence,
              update_count |-> Len(bpms),
              ai_advice |-> d.last_ai_advice,
              recommendations |-> CurrentRecommendations(d)]]

\* analyze_vitals(bpm, confidence): the diagnosis object after the call and
\* the snapshot returned
AnalyzeVitals(d, bpm, confidence) ==
    IF Rejects(bpm, confidence)
    THEN [diagnosis |-> d, result |-> RejectedSnapshot]
    ELSE
      LET bpms == DequeAppend(d.bpm_history, HistoryMaxLen, bpm)
          stresses == DequeAppend(d.stress_history, HistoryMaxLen, StressOf(confidence))
          class == StressClass(stresses)
          fatigued == FatigueTrend(bpms)
          alerts == <<HeartRateAlert(bpm), StressAlert(class)>>
                    \o (IF fatigued THEN <<"Possible fatigue detected">> ELSE <<>>)
      IN  [diagnosis |-> [d EXCEPT !.bpm_history = bpms, !.stress_history = stresses],
           result |->
             [heart_rate |-> RoundTenth(bpm),
              stress_level |-> RoundDiv(Sum(stresses), Len(stresses)),
              fatigue_risk |-> FatigueRisk(class, fatigued),
              health_status |-> HealthStatus(bpm),
              alerts |-> alerts,
              confidence |-> confidence,
              update_count |-> Len(bpms),
              ai_advice |-> d.last_ai_advice,
              recommendations |-> CurrentRecommendations(d)]]

NoVitalsCall == [made |-> FALSE, n |-> 0, switches |-> 0]

NoAdviceCall == [made |-> FALSE]

\* the estimates given to the stand-alone diagnosis object: <<bpm, confidence>>
Estimates ==
    { <<0, 90>>, <<7200, 19>>,
      <<4990, 20>>, <<5000, 90>>, <<7200, 50>>, <<7826, 100>>,
      <<8000, 40>>, <<10000, 120>>, <<11026, 30>> }

\* a call of analyze_vitals on the stand-alone diagnosis object; the calls of
\* a run number at most MaxCalls and change their estimate at most
\* MaxSwitches times
Analyze(bpm, confidence) ==
    LET out == AnalyzeVitals(diagnosis, bpm, confidence)
        switch == IF vitals_call.made /\
                     <<vitals_call.bpm, vitals_call.confidence>> # <<bpm, confidence>>
                  THEN 1 ELSE 0
    IN  /\ vitals_call.n < MaxCalls
        /\ vitals_call.switches + switch <= MaxSwitches
        /\ diagnosis' = out.diagnosis
        /\ vitals_call' = [made |-> TRUE,
                           n |-> vitals_call.n + 1,
                           switches |-> vitals_call.switches + switch,
                           bpm |-> bpm,
                           confidence |-> confidence,
                           before |-> diagnosis,
                           result |-> out.result]
        /\ UNCHANGED <<twin, advice_call, procVars, sessVars>>

\* the second diagnosis object, as constructed
NewTwin == [diagnosis |-> NewDiagnosis, call |-> NoVitalsCall]

\* a call of analyze_vitals on the second diagnosis object, bounded as the
\* calls on the first
TwinAnalyze(bpm, confidence) ==
    LET out == AnalyzeVitals(twin.diagnosis, bpm, confidence)
        switch == IF twin.call.made /\
                     <<twin.call.bpm, twin.call.confidence>> # <<bpm, confidence>>
                  THEN 1 ELSE 0
    IN  /\ twin.call.n < MaxCalls
        /\ twin.call.switches + switch <= MaxSwitches
        /\ twin' = [diagnosis |-> out.diagnosis,
                    call |-> [made |-> TRUE,
                              n |-> twin.call.n + 1,
                              switches |-> twin.call.switches + switch,
                              bpm |-> bpm,
                              confidence |-> confidence,
                              before |-> twin.diagnosis,
                              result |-> out.result]]
        /\ UNCHANGED <<diagnosis, vitals_call, advice_call, procVars, sessVars>>

(***************************************************************************)
(* Monitoring sessions.  A value that may be None is a sequence: <<>> for  *)
(* None, <<x>> for x.                                                      *)
(***************************************************************************)
SessionIds == {"s1", "s2"}
PatientIds == {"None"}
\* the clock's reading when the run begins, and the seconds it moves in a step
StartTime == 100
ClockStep == 5
\* the seconds that must have passed before another advice task is created
\* (process_frame) or another backend call is made (get_ai_medical_advice_async)
CooldownSeconds == 10

\* FastCamera: cap is None until initialize, which leaves a capture that is
\* opened or not; release closes it
NewCamera == [cap |-> "None"]

CameraInitialize(camera, opens) ==
    [camera EXCEPT !.cap = IF opens THEN "opened" ELSE "unopened"]

CameraRelease(camera) ==
    IF camera.cap = "None" THEN camera ELSE [camera EXCEPT !.cap = "released"]

\* FastCamera.get_frame returns a frame only when the capture's read succeeds
CameraHasFrame(camera, read_ok) == camera.cap = "opened" /\ read_ok

\* RealTimeMonitoringSession.__init__
NewSession(id, patient) ==
    [session_id |-> id, patient_id |-> patient,
     camera |-> NewCamera,
     rppg_processor |-> NewFastRPPGProcessor(DefaultWindowSize),
     diagnosis |-> NewDiagnosis,
     is_running |-> FALSE, frame_count |-> 0, last_diagnosis |-> <<>>,
     ai_update_counter |-> 0, last_ai_update_time |-> 0]

\* DatabaseService.create_session
CreateSession(db, id, patient, t) ==
    [db EXCEPT ![id] = <<[session_id |-> id, patient_id |-> patient,
                          start_time |-> t, end_time |-> <<>>,
                          status |-> "active"]>>]

\* DatabaseService.end_session
EndSession(db, id, t) ==
    IF db[id] = <<>> THEN db
    ELSE [db EXCEPT ![id] = <<[@[1] EXCEPT !.end_time = <<t>>,
                                           !.status = "completed"]>>]

\* DatabaseService.save_physiological_data
SavePhysiologicalData(rows, id, snapshot, face_detected, t) ==
    Append(rows, [session_id |-> id,
                  heart_rate |-> snapshot.heart_rate,
                  stress_index |-> snapshot.stress_level,
                  confidence |-> snapshot.confidence,
                  alerts |-> snapshot.alerts,
                  face_detected |-> face_detected,
                  timestamp |-> t])

\* what RealTimeMonitoringSession.stop does to the session object
SessionStopped(session) ==
    [session EXCEPT !.is_running = FALSE, !.camera = CameraRelease(@)]

\* the objects a session is built from are its own: __init__ makes a new
\* camera, processor and diagnosis for every session, so a method of session
\* id writes that session's object and no other
PutSessionSharedDiagnosis(objs, id, session) ==
    [i \in DOMAIN objs |->
        IF i = id THEN <<session>>
        ELSE IF objs[i] = <<>> THEN <<>>
        ELSE <<[objs[i][1] EXCEPT !.diagnosis = session.diagnosis]>>]

PutSession(objs, id, session) == [objs EXCEPT ![id] = <<session>>]

\* the session, its registration and its stored record
SessionView(objs, registry, db, id) ==
    [session |-> objs[id], registered |-> id \in registry, record |-> db[id]]

NoStopCall == [made |-> FALSE, n |-> 0, stopped |-> {}]
NoFrameCall == [made |-> FALSE]

NoSessions ==
    /\ sessions = [id \in SessionIds |-> <<>>]
    /\ monitoring_sessions = {}
    /\ db_sessions = [id \in SessionIds |-> <<>>]
    /\ db_physio = <<>>
    /\ tasks = <<>>
    /\ now = StartTime
    /\ used_ids = {}
    /\ http = [op |-> "none"]
    /\ stop_call = NoStopCall
    /\ frame_call = NoFrameCall
    /\ loops = [id \in SessionIds |-> "none"]

\* the clock moves on by ClockStep seconds, at most `limit` times in a run
AdvanceClock(limit) ==
    /\ now + ClockStep <= StartTime + limit * ClockStep
    /\ now' = now + ClockStep
    /\ UNCHANGED <<procVars, diagVars, loops, sessions, monitoring_sessions, db_sessions,
                   db_physio, tasks, used_ids, http, stop_call, frame_call>>

\* POST /api/sessions/start: a new id, a new session, start(), registration.
\* start() raises when the camera does not open; nothing is registered or
\* stored then and the request fails.
StartMonitoringSession(id, patient, opens) ==
    /\ id \notin used_ids
    /\ used_ids' = used_ids \cup {id}
    /\ IF opens
       THEN /\ sessions' = [sessions EXCEPT ![id] =
                  <<[NewSession(id, patient) EXCEPT
                        !.camera = CameraInitialize(@, TRUE),
                        !.is_running = TRUE]>>]
            /\ db_sessions' = CreateSession(db_sessions, id, patient, now)
            /\ monitoring_sessions' = monitoring_sessions \cup {id}
            /\ http' = [op |-> "start", id |-> id, status |-> 200]
       ELSE /\ http' = [op |-> "start", id |-> id, status |-> 500]
            /\ UNCHANGED <<sessions, db_sessions, monitoring_sessions>>
    /\ UNCHANGED <<procVars, diagVars, loops, db_physio, tasks, now, stop_call, frame_call>>

\* RealTimeMonitoringSession.stop, called on the session object itself; at
\* most `limit` stop requests are made in a run
Stop(id, limit) ==
    /\ sessions[id] # <<>>
    /\ stop_call.n < limit
    /\ sessions' = PutSession(sessions, id, SessionStopped(sessions[id][1]))
    /\ db_sessions' = EndSession(db_sessions, id, now)
    /\ stop_call' = [made |-> TRUE, n |-> stop_call.n + 1,
                     stopped |-> stop_call.stopped \cup {<<id, "method">>},
                     id |-> id, via |-> "method",
                     repeated |-> <<id, "method">> \in stop_call.stopped,
                     outcome |-> "ok",
                     before |-> SessionView(sessions, monitoring_sessions, db_sessions, id),
                     after |-> SessionView(sessions', monitoring_sessions, db_sessions', id)]
    /\ UNCHANGED <<procVars, diagVars, loops, monitoring_sessions, db_physio, tasks, now,
                   used_ids, http, frame_call>>

\* POST /api/sessions/{session_id}/stop: 404 for an id the registry does not
\* hold; otherwise stop() and removal from the registry; at most `limit` stop
\* requests are made in a run
StopMonitoringSession(id, limit) ==
    /\ stop_call.n < limit
    /\ IF id \notin monitoring_sessions
       THEN /\ http' = [op |-> "stop", id |-> id, status |-> 404]
            /\ UNCHANGED <<sessions, db_sessions, monitoring_sessions>>
       ELSE /\ sessions' = PutSession(sessions, id, SessionStopped(sessions[id][1]))
            /\ db_sessions' = EndSession(db_sessions, id, now)
            /\ monitoring_sessions' = monitoring_sessions \ {id}
            /\ http' = [op |-> "stop", id |-> id, status |-> 200]
    /\ stop_call' = [made |-> TRUE, n |-> stop_call.n + 1,
                     stopped |-> IF id \in monitoring_sessions
                                 THEN stop_call.stopped \cup {<<id, "endpoint">>}
                                 ELSE stop_call.stopped,
                     id |-> id, via |-> "endpoint",
                     repeated |-> <<id, "endpoint">> \in stop_call.stopped,
                     outcome |-> IF id \in monitoring_sessions THEN "ok" ELSE "not found",
                     before |-> SessionView(sessions, monitoring_sessions, db_sessions, id),
                     after |-> SessionView(sessions', monitoring_sessions', db_sessions', id)]
    /\ UNCHANGED <<procVars, diagVars, loops, db_physio, tasks, now, used_ids, frame_call>>

\* POST /api/sessions/{session_id}/stop for a registered id when the commit
\* of end_session raises: stop() has set is_running to False, the exception
\* leaves stop() before the camera is released and leaves the endpoint
\* before the del, nothing is stored, and the request fails
StopMonitoringSessionRaises(id, limit) ==
    /\ stop_call.n < limit
    /\ id \in monitoring_sessions
    /\ sessions' = PutSession(sessions, id, [sessions[id][1] EXCEPT !.is_running = FALSE])
    /\ http' = [op |-> "stop", id |-> id, status |-> 500]
    /\ stop_call' = [made |-> TRUE, n |-> stop_call.n + 1,
                     stopped |-> stop_call.stopped,
                     id |-> id, via |-> "endpoint",
                     repeated |-> <<id, "endpoint">> \in stop_call.stopped,
                     outcome |-> "raised",
                     before |-> SessionView(sessions, monitoring_sessions, db_sessions, id),
                     after |-> SessionView(sessions', monitoring_sessions, db_sessions, id)]
    /\ UNCHANGED <<procVars, diagVars, loops, monitoring_sessions, db_sessions, db_physio,
                   tasks, now, used_ids, frame_call>>

\* process_frame's two early returns: the session is not running, or the
\* camera gave no frame
TickSkippedOnlyWhenStopped(session, read_ok) == ~session.is_running

TickSkipped(session, read_ok) ==
    ~session.is_running \/ ~CameraHasFrame(session.camera, read_ok)

\* the sample extract_signal may return: 0 when there are no landmarks or the
\* forehead rectangle fails the guard, else the rectangle's mean green value
ExtractedSamples == {0, GenuineSample}

\* process_frame's test before add_signal, without the comparison
IsGenuineAlways(signal_value) == TRUE

\* process_frame's test before add_signal: signal_value > 0
IsGenuine(signal_value) == signal_value > 0

\* the test before save_physiological_data without the heart rate
SaveDueAnySnapshot(diagnosis_result) == diagnosis_result # <<>>

\* process_frame's test before save_physiological_data:
\* diagnosis_result and diagnosis_result['heart_rate'] > 0
SaveDue(diagnosis_result) ==
    diagnosis_result # <<>> /\ diagnosis_result[1].heart_rate > 0

\* the test before compute_heart_rate without the frame count
EstimateDueEveryFrame(frame_count, buffer) == Len(buffer) >= 30

\* process_frame's test before compute_heart_rate
EstimateDue(frame_count, buffer) == frame_count % 15 = 0 /\ Len(buffer) >= 30

\* _get_vital_signs_hash: heart_rate to one decimal, stress_level to two,
\* health_status
VitalSignsHash(vital_signs) ==
    <<RoundTenth(vital_signs.heart_rate), vital_signs.stress_level,
      vital_signs.health_status>>

\* the test before creating an advice task without the cooldown
AdviceDueNoCooldown(t, session, diagnosis_result) ==
    /\ diagnosis_result # <<>>
    /\ diagnosis_result[1].heart_rate > 0

\* process_frame's test before creating an advice task
AdviceDue(t, session, diagnosis_result) ==
    /\ t - session.last_ai_update_time > CooldownSeconds
    /\ diagnosis_result # <<>>
    /\ diagnosis_result[1].heart_rate > 0

\* the length of session id's window once one more sample is added
NextWindowLength(id) ==
    IF sessions[id] = <<>> THEN 0
    ELSE Min(Len(sessions[id][1].rppg_processor.signal_buffer) + 1,
             sessions[id][1].rppg_processor.window_size)

\* what the estimator's numerical stages may do on session id's next tick:
\* they run only on a tick whose frame count is a multiple of 15 and whose
\* window holds 30 samples, so every other tick has the one environment in
\* which nothing fails
QuietEnv == [fail |-> "none", peak |-> 0, confidence |-> 0, flat |-> FALSE]

SessionEnvs(id) ==
    IF sessions[id] # <<>> /\ sessions[id][1].frame_count % 15 = 0
       /\ NextWindowLength(id) >= 30
    THEN Envs(NextWindowLength(id), DefaultFps)
    ELSE {QuietEnv}

\* RealTimeMonitoringSession.process_frame on session id.  read_ok: the camera
\* delivers a frame; face: a face (with landmarks) is detected; sample: what
\* extract_signal returns; env: what the estimator's numerical stages do; a
\* session processes at most `limit` frames, at most `misses` of them adding
\* no sample.
ProcessFrame(id, read_ok, face, sample, env, limit, misses) ==
    /\ sessions[id] # <<>>
    /\ LET s == sessions[id][1]
       IN
       IF TickSkipped(s, read_ok)
       THEN /\ frame_call' = [made |-> TRUE, id |-> id, returned |-> FALSE,
                              running |-> s.is_running,
                              frame |-> CameraHasFrame(s.camera, read_ok)]
            /\ hr_call' = NoCall
            /\ UNCHANGED <<fast, core, added, extract_call, diagVars, loops, sessions, monitoring_sessions,
                           db_sessions, db_physio, tasks, now, used_ids, http,
                           stop_call>>
       ELSE
         LET adds == face /\ IsGenuine(sample)
             buffer == IF adds
                       THEN DequeAppend(s.rppg_processor.signal_buffer,
                                        s.rppg_processor.window_size, sample)
                       ELSE s.rppg_processor.signal_buffer
             estimates == adds /\ EstimateDue(s.frame_count, buffer)
             hr == FastComputeHeartRate(buffer, DefaultFps, env)
             analyzes == estimates /\ ~hr.raised /\ hr.bpm > 0
             out == AnalyzeVitals(s.diagnosis, hr.bpm, hr.confidence)
             diagnosis_result == IF analyzes THEN <<out.result>> ELSE s.last_diagnosis
             saves == analyzes /\ SaveDue(<<out.result>>)
             launches == AdviceDue(now, s, diagnosis_result)
             s1 == [s EXCEPT
                      !.rppg_processor.signal_buffer = buffer,
                      !.diagnosis = IF analyzes THEN out.diagnosis ELSE @,
                      !.last_diagnosis = diagnosis_result,
                      !.frame_count = @ + 1,
                      !.last_ai_update_time = IF launches THEN now ELSE @,
                      !.ai_update_counter = IF launches THEN @ + 1 ELSE @]
         IN  /\ s.frame_count < limit
             /\ s1.frame_count - Len(buffer) <= misses
             /\ sessions' = PutSession(sessions, id, s1)
             /\ db_physio' = IF saves
                             THEN SavePhysiologicalData(db_physio, id, out.result, face, now)
                             ELSE db_physio
             /\ tasks' = IF launches
                         THEN Append(tasks, [session |-> id,
                                             vital_signs |-> diagnosis_result[1],
                                             pc |-> "created"])
                         ELSE tasks
             /\ hr_call' = IF estimates
                           THEN [proc |-> "fast", len |-> Len(buffer),
                                 fail |-> env.fail, flat |-> env.flat,
                                 result |-> hr,
                                 before |-> buffer,
                                 after |-> s1.rppg_processor.signal_buffer]
                           ELSE NoCall
             /\ frame_call' = [made |-> TRUE, id |-> id, returned |-> TRUE,
                               running |-> s.is_running,
                               frame |-> CameraHasFrame(s.camera, read_ok),
                               diagnosis |-> diagnosis_result,
                               face_detected |-> face,
                               sample |-> IF face THEN sample ELSE 0,
                               frame_count |-> s1.frame_count,
                               ai_update_count |-> s1.ai_update_counter]
             /\ UNCHANGED <<fast, core, added, extract_call, diagVars, loops, monitoring_sessions,
                            db_sessions, now, used_ids, http, stop_call>>

(***************************************************************************)
(* The websocket frame loop (websocket_endpoint): after accept it calls    *)
(* process_frame while the session is running.  The try that catches an    *)
(* exception encloses the whole while, so an exception that leaves         *)
(* process_frame leaves the loop too, and the websocket is closed.         *)
(***************************************************************************)
\* the calls of process_frame that are not guarded inside it and may raise
RaisingStages == {"extract_signal", "save_physiological_data"}

\* websocket_endpoint up to the loop: a websocket for a registered session is
\* accepted and its loop begins
WebsocketConnect(id) ==
    /\ id \in monitoring_sessions
    /\ loops[id] = "none"
    /\ loops' = [loops EXCEPT ![id] = "running"]
    /\ UNCHANGED <<procVars, diagVars, sessions, monitoring_sessions, db_sessions,
                   db_physio, tasks, now, used_ids, http, stop_call, frame_call>>

\* one pass of the while: the session is running and process_frame returns
LoopTick(id, read_ok, face, sample, env, limit, misses) ==
    /\ loops[id] = "running"
    /\ sessions[id] # <<>>
    /\ sessions[id][1].is_running
    /\ ProcessFrame(id, read_ok, face, sample, env, limit, misses)

\* one pass of the while in which process_frame raises at `stage`:
\* extract_signal raises before anything is written; save_physiological_data
\* raises after the sample was added and the estimate analysed, and before
\* frame_count is incremented.  The exception is caught outside the while.
LoopTickRaises(id, sample, env, stage) ==
    /\ loops[id] = "running"
    /\ sessions[id] # <<>>
    /\ LET s == sessions[id][1]
           buffer == DequeAppend(s.rppg_processor.signal_buffer,
                                 s.rppg_processor.window_size, sample)
           hr == FastComputeHeartRate(buffer, DefaultFps, env)
           out == AnalyzeVitals(s.diagnosis, hr.bpm, hr.confidence)
           saving == /\ IsGenuine(sample)
                     /\ EstimateDue(s.frame_count, buffer)
                     /\ hr.bpm > 0
                     /\ out.result.heart_rate > 0
       IN  /\ s.is_running
           /\ CameraHasFrame(s.camera, TRUE)
           /\ stage = "save_physiological_data" => saving
           /\ sessions' =
                 IF stage = "save_physiological_data"
                 THEN PutSession(sessions, id,
                         [s EXCEPT !.rppg_processor.signal_buffer = buffer,
                                   !.diagnosis = out.diagnosis,
                                   !.last_diagnosis = <<out.result>>])
                 ELSE sessions
           /\ frame_call' = [made |-> TRUE, id |-> id, returned |-> FALSE,
                             running |-> TRUE, frame |-> TRUE, raised |-> stage,
                             frame_count |-> s.frame_count]
    /\ hr_call' = NoCall
    /\ loops' = [loops EXCEPT ![id] = "ended"]
    /\ UNCHANGED <<fast, core, added, extract_call, diagVars, monitoring_sessions, db_sessions,
                   db_physio, tasks, now, used_ids, http, stop_call>>

\* the while's test fails: the session was stopped, the websocket is closed
LoopExit(id) ==
    /\ loops[id] = "running"
    /\ sessions[id] # <<>>
    /\ ~sessions[id][1].is_running
    /\ loops' = [loops EXCEPT ![id] = "ended"]
    /\ UNCHANGED <<procVars, diagVars, sessions, monitoring_sessions, db_sessions,
                   db_physio, tasks, now, used_ids, http, stop_call, frame_call>>

(***************************************************************************)
(* The advice task (_update_ai_advice_async): get_ai_medical_advice_async  *)
(* runs to its await of the backend call, or returns the stored advice at  *)
(* once; when the backend call ends the task stores the advice.            *)
(***************************************************************************)
UnavailableAdvice ==
    "AI medical assessment temporarily unavailable. Please try again."
BackendAdvice == "You should rest for a few minutes and drink some water."

\* extract_recommendations_from_advice: nothing from a text that reports an
\* unavailable service, one recommendation from an advice text
ExtractRecommendations(advice) ==
    IF advice = UnavailableAdvice THEN <<>> ELSE <<[id |-> advice]>>

\* RealTimeMedicalDiagnosis.update_ai_advice
UpdateAiAdvice(d, new_advice) ==
    IF new_advice # "" /\ new_advice # d.last_ai_advice
    THEN [d EXCEPT
            !.last_ai_advice = new_advice,
            !.recommendation_history =
                @ \o SelectSeq(ExtractRecommendations(new_advice),
                               LAMBDA r : \A i \in 1..Len(d.recommendation_history) :
                                             d.recommendation_history[i].id # r.id)]
    ELSE d

\* the end of _update_ai_advice_async: update_ai_advice, then the advice is
\* written into last_diagnosis when there is one
StoreAdvice(session, new_advice) ==
    [session EXCEPT
       !.diagnosis = UpdateAiAdvice(@, new_advice),
       !.last_diagnosis = IF @ = <<>> THEN @
                          ELSE <<[@[1] EXCEPT !.ai_advice = new_advice]>>]

\* the gates of get_ai_medical_advice_async without the test of ai_processing
AdviceGatedNoProcessing(d, vital_signs, t) ==
    \/ t - d.last_ai_call_time < CooldownSeconds /\ d.last_ai_advice # InitialAdvice
    \/ <<VitalSignsHash(vital_signs)>> = d.last_vital_hash
         /\ d.last_ai_advice # InitialAdvice

\* the gates of get_ai_medical_advice_async without the hash comparison
AdviceGatedNoHash(d, vital_signs, t) ==
    \/ t - d.last_ai_call_time < CooldownSeconds /\ d.last_ai_advice # InitialAdvice
    \/ d.ai_processing

\* the gate at which get_ai_medical_advice_async returns, in the order the
\* code tests them: "none" when it goes on to the backend call
AdviceGate(d, vital_signs, t) ==
    IF t - d.last_ai_call_time < CooldownSeconds /\ d.last_ai_advice # InitialAdvice
    THEN "cooldown"
    ELSE IF d.ai_processing THEN "processing"
    ELSE IF <<VitalSignsHash(vital_signs)>> = d.last_vital_hash
            /\ d.last_ai_advice # InitialAdvice
    THEN "hash"
    ELSE "none"

\* get_ai_medical_advice_async returns the stored advice without a backend call
AdviceGated(d, vital_signs, t) ==
    \/ t - d.last_ai_call_time < CooldownSeconds /\ d.last_ai_advice # InitialAdvice
    \/ d.ai_processing
    \/ <<VitalSignsHash(vital_signs)>> = d.last_vital_hash
         /\ d.last_ai_advice # InitialAdvice

RemoveAt(seq, i) == SubSeq(seq, 1, i - 1) \o SubSeq(seq, i + 1, Len(seq))

\* a created task runs: up to the backend call, or to its end when gated
AdviceTaskRun(i) ==
    /\ i \in 1..Len(tasks)
    /\ tasks[i].pc = "created"
    /\ LET id == tasks[i].session
           s == sessions[id][1]
           d == s.diagnosis
       IN  /\ IF AdviceGated(d, tasks[i].vital_signs, now)
              THEN /\ sessions' = PutSession(sessions, id,
                                             StoreAdvice(s, d.last_ai_advice))
                   /\ tasks' = RemoveAt(tasks, i)
              ELSE /\ sessions' = PutSession(sessions, id,
                         [s EXCEPT !.diagnosis =
                              [d EXCEPT
                                 !.last_vital_hash =
                                     <<VitalSignsHash(tasks[i].vital_signs)>>,
                                 !.ai_processing = TRUE,
                                 !.last_ai_call_time = now]])
                   /\ tasks' = [tasks EXCEPT ![i].pc = "calling"]
           /\ advice_call' = [made |-> TRUE, session |-> id,
                               vital_signs |-> tasks[i].vital_signs,
                               before |-> d,
                               at |-> now,
                               gate |-> AdviceGate(d, tasks[i].vital_signs, now),
                               invoked |-> ~AdviceGated(d, tasks[i].vital_signs, now),
                               after |-> sessions'[id][1].diagnosis]
    /\ UNCHANGED <<procVars, diagnosis, vitals_call, twin, loops, monitoring_sessions,
                   db_sessions, db_physio, now, used_ids, http, stop_call, frame_call>>

\* the backend call of a task ends, with an advice text or by raising
AdviceTaskFinish(i, raises) ==
    /\ i \in 1..Len(tasks)
    /\ tasks[i].pc = "calling"
    /\ LET id == tasks[i].session
           s == sessions[id][1]
           new_advice == IF raises THEN UnavailableAdvice ELSE BackendAdvice
           s1 == [s EXCEPT
                    !.diagnosis.last_ai_advice = IF raises THEN @ ELSE BackendAdvice,
                    !.diagnosis.ai_processing = FALSE]
       IN  /\ sessions' = PutSession(sessions, id, StoreAdvice(s1, new_advice))
           /\ tasks' = RemoveAt(tasks, i)
    /\ UNCHANGED <<procVars, diagVars, loops, monitoring_sessions, db_sessions, db_physio,
                   now, used_ids, http, stop_call, frame_call>>

(***************************************************************************)
(* Spec: one session followed through its frames.  It is started through   *)
(* the endpoint, ticked up to MaxFrames times, its advice tasks run, the   *)
(* clock moves, and it may be stopped through the endpoint.                *)
(***************************************************************************)
Init ==
    /\ fast = NewFastRPPGProcessor(DefaultWindowSize)
    /\ core = NewRPPGProcessor(CoreWindowSize)
    /\ added = [fast |-> <<>>, core |-> <<>>]
    /\ hr_call = NoCall
    /\ extract_call = NoExtractCall
    /\ diagnosis = NewDiagnosis
    /\ vitals_call = NoVitalsCall
    /\ advice_call = NoAdviceCall
    /\ twin = NewTwin
    /\ NoSessions

Next ==
    \/ AdvanceClock(MaxClockSteps)
    \/ \E patient \in PatientIds, opens \in BOOLEAN :
          StartMonitoringSession("s1", patient, opens)
    \/ StopMonitoringSession("s1", 1)
    \/ \E read_ok \in BOOLEAN, face \in BOOLEAN, sample \in ExtractedSamples :
          \E env \in SessionEnvs("s1") :
             ProcessFrame("s1", read_ok, face, sample, env, MaxFrames, MaxMisses)
    \/ \E i \in 1..Len(tasks) : AdviceTaskRun(i)
    \/ \E i \in 1..Len(tasks), raises \in BOOLEAN : AdviceTaskFinish(i, raises)

Spec == Init /\ [][Next]_vars

(***************************************************************************)
(* LifecycleSpec: sessions started and stopped.  Any session id may be     *)
(* started once, stop requests arrive through the endpoint or as calls of  *)
(* stop() on a session object, for any id and repeatedly, and sessions are *)
(* ticked a few frames meanwhile.                                          *)
(***************************************************************************)
LifecycleNext ==
    \/ AdvanceClock(MaxLifecycleClockSteps)
    \/ \E id \in SessionIds, patient \in PatientIds, opens \in BOOLEAN :
          StartMonitoringSession(id, patient, opens)
    \/ \E id \in SessionIds : Stop(id, MaxStops)
    \/ \E id \in SessionIds : StopMonitoringSession(id, MaxStops)
    \/ \E id \in SessionIds, read_ok \in BOOLEAN, face \in BOOLEAN,
          sample \in ExtractedSamples :
          ProcessFrame(id, read_ok, face, sample, QuietEnv,
                       MaxLifecycleFrames, MaxLifecycleFrames)

LifecycleSpec == Init /\ [][LifecycleNext]_vars

(***************************************************************************)
(* PairSpec: two sessions side by side.  "s1" is followed through its      *)
(* frames to an estimate and its advice task, "s2" is ticked a few frames; *)
(* either may be started, stopped through the endpoint and ticked in any   *)
(* order, and an advice task may end after its session was stopped.        *)
(***************************************************************************)
PairFrames(id) == IF id = "s1" THEN MaxFrames ELSE MaxPairFrames

\* in PairSpec every tick of "s1" adds a sample
PairMisses(id) == IF id = "s1" THEN 0 ELSE MaxPairFrames

PairNext ==
    \/ \E id \in SessionIds, patient \in PatientIds, opens \in BOOLEAN :
          StartMonitoringSession(id, patient, opens)
    \/ \E id \in SessionIds : StopMonitoringSession(id, MaxPairStops)
    \/ \E id \in SessionIds, face \in BOOLEAN, sample \in ExtractedSamples :
          \E env \in SessionEnvs(id) :
             ProcessFrame(id, TRUE, face, sample, env, PairFrames(id), PairMisses(id))
    \/ \E i \in 1..Len(tasks) : AdviceTaskRun(i)
    \/ \E i \in 1..Len(tasks), raises \in BOOLEAN : AdviceTaskFinish(i, raises)

PairSpec == Init /\ [][PairNext]_vars

(***************************************************************************)
(* LoopSpec: one session ticked by its websocket frame loop.  It is        *)
(* started, a websocket connects, the loop ticks it (a tick may raise in   *)
(* signal extraction or in persistence), and it may be stopped.            *)
(***************************************************************************)
LoopNext ==
    \/ \E patient \in PatientIds, opens \in BOOLEAN :
          StartMonitoringSession("s1", patient, opens)
    \/ WebsocketConnect("s1")
    \/ StopMonitoringSession("s1", 1)
    \/ \E read_ok \in BOOLEAN, face \in BOOLEAN, sample \in ExtractedSamples :
          \E env \in SessionEnvs("s1") :
             LoopTick("s1", read_ok, face, sample, env, MaxFrames, MaxMisses)
    \/ \E sample \in ExtractedSamples, stage \in RaisingStages :
          \E env \in SessionEnvs("s1") :
             LoopTickRaises("s1", sample, env, stage)
    \/ LoopExit("s1")

LoopSpec == Init /\ [][LoopNext]_vars

(***************************************************************************)
(* TwinSpec: two RealTimeMedicalDiagnosis objects given estimates          *)
(* independently of one another, while the second one's advice is updated. *)
(* analyze_vitals does not read the clock.                                 *)
(***************************************************************************)
\* the estimates given to the second object, <<bpm, confidence>>; the first
\* object is given only those that are accepted
TwinEstimates == { <<0, 90>>, <<7200, 50>>, <<11026, 30>> }
AcceptedTwinEstimates == {e \in TwinEstimates : ~Rejects(e[1], e[2])}

\* the accepted estimates offered to an object with this heart-rate history:
\* its first TwinWarmUp entries are all the high estimate
TwinOffered(bpm_history) ==
    IF Len(bpm_history) < TwinWarmUp THEN {<<11026, 30>>}
    ELSE AcceptedTwinEstimates

\* update_ai_advice(new_advice) on the second object, with a new advice text
TwinUpdateAdvice ==
    /\ twin.diagnosis.last_ai_advice = InitialAdvice
    /\ twin' = [twin EXCEPT !.diagnosis = UpdateAiAdvice(@, BackendAdvice)]
    /\ UNCHANGED <<diagnosis, vitals_call, advice_call, procVars, sessVars>>

TwinNext ==
    \/ \E e \in TwinOffered(diagnosis.bpm_history) :
          Analyze(e[1], e[2]) /\ vitals_call'.switches <= MaxTwinSwitches
    \/ \E e \in TwinOffered(twin.diagnosis.bpm_history) \cup {<<0, 90>>} :
          TwinAnalyze(e[1], e[2])
    \/ TwinUpdateAdvice

TwinSpec == Init /\ [][TwinNext]_vars

(***************************************************************************)
(* HistorySpec: a RealTimeMedicalDiagnosis() given enough estimates to     *)
(* fill its histories and evict from them.                                 *)
(***************************************************************************)
\* the calls of a run, and the times the estimate changes between them
MaxLongCalls == 17
MaxLongSwitches == 2

LongEstimates == { <<0, 90>>, <<7200, 19>>, <<7200, 50>>, <<11026, 120>> }

\* a call of analyze_vitals on the stand-alone diagnosis object, counting
\* the estimates accepted so far
LongAnalyze(bpm, confidence) ==
    LET out == AnalyzeVitals(diagnosis, bpm, confidence)
        switch == IF vitals_call.made /\
                     <<vitals_call.bpm, vitals_call.confidence>> # <<bpm, confidence>>
                  THEN 1 ELSE 0
        accepted == IF vitals_call.made THEN vitals_call.accepted ELSE 0
    IN  /\ vitals_call.n < MaxLongCalls
        /\ vitals_call.switches + switch <= MaxLongSwitches
        /\ diagnosis' = out.diagnosis
        /\ vitals_call' = [made |-> TRUE,
                           n |-> vitals_call.n + 1,
                           switches |-> vitals_call.switches + switch,
                           accepted |-> accepted
                                          + (IF Rejects(bpm, confidence) THEN 0 ELSE 1),
                           bpm |-> bpm,
                           confidence |-> confidence,
                           before |-> diagnosis,
                           result |-> out.result]
        /\ UNCHANGED <<twin, advice_call, procVars, sessVars>>

HistoryNext == \E e \in LongEstimates : LongAnalyze(e[1], e[2])

HistorySpec == Init /\ [][HistoryNext]_vars

(***************************************************************************)
(* BandSpec: a FastRPPGProcessor() one sample short of ready and an        *)
(* RPPGProcessor whose window is small enough for its spectrum to have no  *)
(* bin inside the band, each fed further samples and asked for a heart     *)
(* rate at any moment.                                                     *)
(***************************************************************************)
\* how far below CoreWindowSize the window sizes tried reach
NarrowBy == 2

BandWindows == (CoreWindowSize - NarrowBy)..CoreWindowSize

BandInit ==
    /\ fast = [NewFastRPPGProcessor(DefaultWindowSize) EXCEPT
                  !.signal_buffer = [i \in 1..(FastReadyThreshold - 1) |-> GenuineSample]]
    /\ \E w \in BandWindows : core = NewRPPGProcessor(w)
    /\ added = [fast |-> [i \in 1..(FastReadyThreshold - 1) |-> GenuineSample],
                core |-> <<>>]
    /\ hr_call = NoCall
    /\ extract_call = NoExtractCall
    /\ diagnosis = NewDiagnosis
    /\ vitals_call = NoVitalsCall
    /\ advice_call = NoAdviceCall
    /\ twin = NewTwin
    /\ NoSessions

BandNext ==
    \/ AddSignal(GenuineSample, FastReadyThreshold + ExtraSamples)
    \/ AddSignalPoint(GenuineSample, Len(added.core) + 1, CoreWindowSize + ExtraSamples)
    \/ \E env \in Envs(Len(fast.signal_buffer), DefaultFps)
                    \cup FlatEnvs(Len(fast.signal_buffer), DefaultFps) : FastCompute(env)
    \/ \E env \in Envs(Len(core.signal_buffer), DefaultFps)
                    \cup FlatEnvs(Len(core.signal_buffer), DefaultFps) : CoreCompute(env)

BandSpec == BandInit /\ [][BandNext]_vars

(***************************************************************************)
(* TickSpec: one session ticked past its first diagnosis.  It is started,  *)
(* ticked up to MaxTickFrames times with at most MaxTickMisses ticks that  *)
(* add no sample, and its advice tasks run.                                *)
(***************************************************************************)
MaxTickFrames == 47
MaxTickMisses == 1

\* what the estimator's stages do on the ticks of TickSpec: a stage fails or
\* none does, the peak is one of the lowest bins, and the confidence is
\* below or above the floor of analyze_vitals
TickEnvs(id) ==
    {env \in SessionEnvs(id) :
        /\ env.fail \in {"none", "fft"}
        /\ env.peak <= 4
        /\ env.confidence \in {0, 19, 50}}

TickNext ==
    \/ \E patient \in PatientIds, opens \in BOOLEAN :
          StartMonitoringSession("s1", patient, opens)
    \/ \E read_ok \in BOOLEAN, face \in BOOLEAN, sample \in ExtractedSamples :
          \E env \in TickEnvs("s1") :
             ProcessFrame("s1", read_ok, face, sample, env, MaxTickFrames, MaxTickMisses)
    \/ \E i \in 1..Len(tasks) : AdviceTaskRun(i)
    \/ \E i \in 1..Len(tasks), raises \in BOOLEAN : AdviceTaskFinish(i, raises)

TickSpec == Init /\ [][TickNext]_vars

(***************************************************************************)
(* CooldownSpec: one session ticked past its first diagnosis while the     *)
(* clock moves far enough for a second advice task to be created.          *)
(***************************************************************************)
MaxCooldownClockSteps == 3

CooldownNext ==
    \/ AdvanceClock(MaxCooldownClockSteps)
    \/ \E patient \in PatientIds, opens \in BOOLEAN :
          StartMonitoringSession("s1", patient, opens)
    \/ \E read_ok \in BOOLEAN, face \in BOOLEAN, sample \in ExtractedSamples :
          \E env \in TickEnvs("s1") :
             ProcessFrame("s1", read_ok, face, sample, env, MaxTickFrames, MaxTickMisses)
    \/ \E i \in 1..Len(tasks) : AdviceTaskRun(i)
    \/ \E i \in 1..Len(tasks), raises \in BOOLEAN : AdviceTaskFinish(i, raises)

CooldownSpec == Init /\ [][CooldownNext]_vars

(***************************************************************************)
(* WarmUpSpec: one session from its start to its first diagnoses, with     *)
(* enough ticks without a face that the window may or may not hold 40      *)
(* samples when frame_count reaches 45.                                    *)
(***************************************************************************)
MaxWarmUpMisses == 7

WarmUpNext ==
    \/ \E patient \in PatientIds, opens \in BOOLEAN :
          StartMonitoringSession("s1", patient, opens)
    \/ \E read_ok \in BOOLEAN, face \in BOOLEAN, sample \in ExtractedSamples :
          \E env \in TickEnvs("s1") :
             ProcessFrame("s1", read_ok, face, sample, env, MaxTickFrames, MaxWarmUpMisses)
    \/ \E i \in 1..Len(tasks) : AdviceTaskRun(i)
    \/ \E i \in 1..Len(tasks), raises \in BOOLEAN : AdviceTaskFinish(i, raises)

WarmUpSpec == Init /\ [][WarmUpNext]_vars

(***************************************************************************)
(* PersistSpec: one session ticked through the estimates at frame counts   *)
(* 45 and 60, each of which may fail, find no beat, be rejected for its    *)
(* confidence, or be accepted.                                             *)
(***************************************************************************)
MaxPersistFrames == 61

PersistNext ==
    \/ \E patient \in PatientIds, opens \in BOOLEAN :
          StartMonitoringSession("s1", patient, opens)
    \/ \E read_ok \in BOOLEAN, face \in BOOLEAN, sample \in ExtractedSamples :
          \E env \in TickEnvs("s1") :
             ProcessFrame("s1", read_ok, face, sample, env, MaxPersistFrames, MaxTickMisses)
    \/ \E i \in 1..Len(tasks) : AdviceTaskRun(i)
    \/ \E i \in 1..Len(tasks), raises \in BOOLEAN : AdviceTaskFinish(i, raises)

PersistSpec == Init /\ [][PersistNext]_vars

(***************************************************************************)
(* RegistrySpec: the registry under the endpoints and the websocket.       *)
(* Sessions are started (the camera may fail to open), websockets connect  *)
(* and tick them, and stop requests arrive for any id, repeatedly; the     *)
(* commit that ends a session may raise.                                   *)
(***************************************************************************)
RegistryNext ==
    \/ \E id \in SessionIds, patient \in PatientIds, opens \in BOOLEAN :
          StartMonitoringSession(id, patient, opens)
    \/ \E id \in SessionIds : StopMonitoringSession(id, MaxStops)
    \/ \E id \in SessionIds : StopMonitoringSessionRaises(id, MaxStops)
    \/ \E id \in SessionIds : WebsocketConnect(id)
    \/ \E id \in SessionIds, read_ok \in BOOLEAN, face \in BOOLEAN,
          sample \in ExtractedSamples :
          LoopTick(id, read_ok, face, sample, QuietEnv,
                   MaxLifecycleFrames, MaxLifecycleFrames)
    \/ \E id \in SessionIds : LoopExit(id)

RegistrySpec == Init /\ [][RegistryNext]_vars

(***************************************************************************)
(* ToneSpec: a FastRPPGProcessor() whose window is full, asked for the     *)
(* heart rate of a pure sinusoid of frequency f, for each f of the band.   *)
(* Frequencies are in hundredths of a hertz.  The samples stand for the    *)
(* sinusoid's: their values are not modelled, the spectrum is.             *)
(***************************************************************************)
\* spacing of the frequencies tried, in hundredths of a hertz
ToneStep == 5

ToneFreqs == {f \in 80..300 : f % ToneStep = 0}

Abs(x) == IF x < 0 THEN 0 - x ELSE x

\* np.argmax(hr_magnitude) for a sinusoid of frequency f: the in-band bin
\* whose frequency k*fps/L is nearest f carries the largest magnitude
TonePeaks(L, fps, f) ==
    {k \in InBandBins(L, fps) :
        \A j \in InBandBins(L, fps) :
            Abs(100 * k * fps - f * L) <= Abs(100 * j * fps - f * L)}

ToneEnvs(L, fps, f) ==
    [fail : {"none"}, peak : TonePeaks(L, fps, f), confidence : Confidences,
     flat : {FALSE}]

\* a call of FastRPPGProcessor.compute_heart_rate on a window holding a
\* sinusoid of frequency f
ToneCompute(f, env) ==
    /\ UNCHANGED <<fast, core, added, extract_call, diagVars, sessVars>>
    /\ hr_call' = [proc |-> "fast",
                   len |-> Len(fast.signal_buffer),
                   fail |-> env.fail,
                   flat |-> env.flat,
                   tone |-> f,
                   result |-> FastComputeHeartRate(fast.signal_buffer, DefaultFps, env),
                   before |-> fast.signal_buffer,
                   after |-> fast'.signal_buffer]

ToneInit ==
    /\ fast = [NewFastRPPGProcessor(DefaultWindowSize) EXCEPT
                  !.signal_buffer = [i \in 1..DefaultWindowSize |-> GenuineSample]]
    /\ core = NewRPPGProcessor(CoreWindowSize)
    /\ added = [fast |-> <<>>, core |-> <<>>]
    /\ hr_call = NoCall
    /\ extract_call = NoExtractCall
    /\ diagnosis = NewDiagnosis
    /\ vitals_call = NoVitalsCall
    /\ advice_call = NoAdviceCall
    /\ twin = NewTwin
    /\ NoSessions

ToneNext ==
    \/ AddSignal(GenuineSample, ExtraSamples)
    \/ \E f \in ToneFreqs :
          \E env \in ToneEnvs(Len(fast.signal_buffer), DefaultFps, f) :
              ToneCompute(f, env)

ToneSpec == ToneInit /\ [][ToneNext]_vars

(***************************************************************************)
(* extract_signal(frame, landmarks).  The frame is FrameHeight rows by     *)
(* FrameWidth columns; pts holds the extremes [x0, x1, y0, y1] of the six  *)
(* forehead points after .astype(np.int32), which a face partly out of     *)
(* view puts outside the frame.  Pixel values are not modelled: a result   *)
(* names the rows and columns whose green channel is averaged.             *)
(***************************************************************************)
\* frame.shape[1] and frame.shape[0] of the frames tried
FrameWidth == 3
FrameHeight == 2
\* how far outside the frame, to the left or above, a point may lie
MaxOutside == 3

\* cv2.boundingRect of points with the extremes pts
BoundingRect(pts) ==
    [x |-> pts.x0, y |-> pts.y0,
     w |-> pts.x1 - pts.x0 + 1, h |-> pts.y1 - pts.y0 + 1]

\* a slice bound i on an axis of n entries: a negative bound counts from the
\* end, and bounds are clipped to the axis
SliceIndex(i, n) ==
    IF i < 0 THEN (IF i + n < 0 THEN 0 ELSE i + n)
    ELSE (IF i > n THEN n ELSE i)

\* the indices a[start:stop] selects on an axis of n entries
Slice(start, stop, n) ==
    {i \in 0..(n - 1) : SliceIndex(start, n) <= i /\ i < SliceIndex(stop, n)}

Sentinel == [sentinel |-> TRUE, rows |-> {}, cols |-> {}]

ExtractSignal(width, height, landmarks, pts) ==
    IF ~landmarks THEN Sentinel
    ELSE LET r == BoundingRect(pts)
         IN  IF /\ r.w > 0 /\ r.h > 0
                /\ r.x + r.w < width
                /\ r.y + r.h < height
             THEN LET rows == Slice(r.y, r.y + r.h, height)
                      cols == Slice(r.x, r.x + r.w, width)
                  IN  IF rows # {} /\ cols # {}
                      THEN [sentinel |-> FALSE, rows |-> rows, cols |-> cols]
                      ELSE Sentinel
             ELSE Sentinel

\* the extremes the forehead points may have on a frame of the given size
PointExtremes(width, height) ==
    {pts \in [x0 : (0 - MaxOutside)..width, x1 : (0 - MaxOutside)..width,
              y0 : (0 - MaxOutside)..height, y1 : (0 - MaxOutside)..height] :
        pts.x0 <= pts.x1 /\ pts.y0 <= pts.y1}

\* a call of FastRPPGProcessor.extract_signal on the stand-alone processor
ExtractSignalCall(landmarks, pts) ==
    /\ UNCHANGED <<fast, core, added, hr_call, diagVars, sessVars>>
    /\ extract_call' = [made |-> TRUE,
                        landmarks |-> landmarks,
                        rect |-> BoundingRect(pts),
                        result |-> ExtractSignal(FrameWidth, FrameHeight, landmarks, pts),
                        before |-> fast.signal_buffer,
                        after |-> fast'.signal_buffer]

(***************************************************************************)
(* ExtractSpec: a FastRPPGProcessor() given a few samples and asked at any *)
(* moment to extract the signal of a frame.                                *)
(***************************************************************************)
ExtractInit ==
    /\ fast = NewFastRPPGProcessor(DefaultWindowSize)
    /\ core = NewRPPGProcessor(CoreWindowSize)
    /\ added = [fast |-> <<>>, core |-> <<>>]
    /\ hr_call = NoCall
    /\ extract_call = NoExtractCall
    /\ diagnosis = NewDiagnosis
    /\ vitals_call = NoVitalsCall
    /\ advice_call = NoAdviceCall
    /\ twin = NewTwin
    /\ NoSessions

ExtractNext ==
    \/ AddSignal(GenuineSample, ExtraSamples)
    \/ \E landmarks \in BOOLEAN :
          \E pts \in PointExtremes(FrameWidth, FrameHeight) :
              ExtractSignalCall(landmarks, pts)

ExtractSpec == ExtractInit /\ [][ExtractNext]_vars

BufferInit ==
    /\ fast = NewFastRPPGProcessor(WindowSize)
    /\ core = NewRPPGProcessor(WindowSize)
    /\ added = [fast |-> <<>>, core |-> <<>>]
    /\ hr_call = NoCall
    /\ extract_call = NoExtractCall
    /\ diagnosis = NewDiagnosis
    /\ vitals_call = NoVitalsCall
    /\ advice_call = NoAdviceCall
    /\ twin = NewTwin
    /\ NoSessions

BufferNext ==
    \/ \E v \in Samples : AddSignal(v, MaxAdds)
    \/ \E v \in Samples : AddSignalPoint(v, Len(added.core) + 1, MaxAdds)

BufferSpec == BufferInit /\ [][BufferNext]_vars

(***************************************************************************)
(* EstimatorSpec: a FastRPPGProcessor() with its default window and an     *)
(* RPPGProcessor(window_size = CoreWindowSize), each fed one sample at a   *)
(* time and asked for a heart rate at any moment.                          *)
(***************************************************************************)
EstimatorInit ==
    /\ fast = NewFastRPPGProcessor(DefaultWindowSize)
    /\ core = NewRPPGProcessor(CoreWindowSize)
    /\ added = [fast |-> <<>>, core |-> <<>>]
    /\ hr_call = NoCall
    /\ extract_call = NoExtractCall
    /\ diagnosis = NewDiagnosis
    /\ vitals_call = NoVitalsCall
    /\ advice_call = NoAdviceCall
    /\ twin = NewTwin
    /\ NoSessions

EstimatorNext ==
    \/ AddSignal(GenuineSample, FastReadyThreshold + ExtraSamples)
    \/ AddSignalPoint(GenuineSample, Len(added.core) + 1, CoreWindowSize + ExtraSamples)
    \/ \E env \in Envs(Len(fast.signal_buffer), DefaultFps)
                    \cup FlatEnvs(Len(fast.signal_buffer), DefaultFps) : FastCompute(env)
    \/ \E env \in Envs(Len(core.signal_buffer), DefaultFps)
                    \cup FlatEnvs(Len(core.signal_buffer), DefaultFps) : CoreCompute(env)

EstimatorSpec == EstimatorInit /\ [][EstimatorNext]_vars

(***************************************************************************)
(* VitalsSpec: a RealTimeMedicalDiagnosis() given one estimate after       *)
(* another.                                                                *)
(***************************************************************************)
VitalsInit ==
    /\ fast = NewFastRPPGProcessor(DefaultWindowSize)
    /\ core = NewRPPGProcessor(CoreWindowSize)
    /\ added = [fast |-> <<>>, core |-> <<>>]
    /\ hr_call = NoCall
    /\ extract_call = NoExtractCall
    /\ diagnosis = NewDiagnosis
    /\ vitals_call = NoVitalsCall
    /\ advice_call = NoAdviceCall
    /\ twin = NewTwin
    /\ NoSessions

VitalsNext == \E e \in Estimates : Analyze(e[1], e[2])

VitalsSpec == VitalsInit /\ [][VitalsNext]_vars

(***************************************************************************)
(* C1: the rolling buffer never holds more than its capacity, and it holds *)
(* exactly the last min(capacity, n) of the n values added so far, in the  *)
(* order they were added (the oldest is evicted first).                    *)
(***************************************************************************)
C1_BufferHoldsLastC ==
    /\ Len(fast.signal_buffer) <= fast.window_size
    /\ fast.signal_buffer = LastN(added.fast, fast.window_size)
    /\ Len(core.signal_buffer) <= core.window_size
    /\ core.signal_buffer = LastN(added.core, core.window_size)
    /\ Len(core.timestamps) = Len(core.signal_buffer)

\* both buffers have overflowed, and the evicted and the kept values differ
C1_Witness ==
    /\ Len(added.fast) > fast.window_size
    /\ Len(added.core) > core.window_size
    /\ Head(added.fast) # Head(fast.signal_buffer)
    /\ Head(added.core) # Head(core.signal_buffer)
    /\ fast.signal_buffer[1] # fast.signal_buffer[Len(fast.signal_buffer)]

(***************************************************************************)
(* C7: compute_heart_rate on a buffer shorter than the estimator's ready   *)
(* threshold (40 samples in FastRPPGProcessor, window_size samples in      *)
(* RPPGProcessor) returns bpm 0 and confidence 0, enters no numerical      *)
(* stage (no detrend, no filter), and leaves the buffer as it was.         *)
(***************************************************************************)
C7_NotReadyYieldsZero ==
    /\ (hr_call.proc = "fast" /\ hr_call.len < FastReadyThreshold) =>
          /\ hr_call.result = ZeroResult(<<>>)
          /\ hr_call.after = hr_call.before
    /\ (hr_call.proc = "core" /\ hr_call.len < core.window_size) =>
          /\ hr_call.result = ZeroResult(<<>>)
          /\ hr_call.after = hr_call.before

\* the fast estimator was asked one sample short of its threshold, on a call
\* where a ready window would have given a non-zero estimate
C7_Witness ==
    /\ hr_call.proc = "fast"
    /\ hr_call.len = FastReadyThreshold - 1
    /\ hr_call.fail = "none"

(***************************************************************************)
(* C8: FastRPPGProcessor.compute_heart_rate never raises to its caller:    *)
(* when detrending, filtering, the transform or the peak / confidence      *)
(* computation fails, the call returns (0, 0).                             *)
(***************************************************************************)
C8_FastNeverRaises ==
    hr_call.proc = "fast" =>
        /\ ~hr_call.result.raised
        /\ (hr_call.len >= FastReadyThreshold /\ hr_call.fail # "none") =>
              (hr_call.result.bpm = 0 /\ hr_call.result.confidence = 0)

\* a ready window whose filtering step raised
C8_Witness ==
    /\ hr_call.proc = "fast"
    /\ hr_call.len >= FastReadyThreshold
    /\ hr_call.fail = "filtfilt"
    /\ hr_call.result.stages = <<"detrend", "filtfilt">>

(***************************************************************************)
(* Claims about analyze_vitals, over the last call made in VitalsSpec.     *)
(***************************************************************************)
\* the last call was made with an estimate the claims call accepted
LastAccepted ==
    /\ vitals_call.made
    /\ vitals_call.bpm # 0
    /\ vitals_call.confidence >= 20

FatigueAlerted == \E i \in 1..Len(vitals_call.result.alerts) :
                      vitals_call.result.alerts[i] = "Possible fatigue detected"

(***************************************************************************)
(* C2: analyze_vitals(bpm, confidence) with bpm = 0 or confidence < 0.2    *)
(* leaves the heart-rate and the stress history as they were and returns   *)
(* fatigue_risk "Unknown", health_status "No data", heart_rate 0 and       *)
(* confidence 0.                                                           *)
(***************************************************************************)
C2_RejectedLeavesHistories ==
    (vitals_call.made /\ (vitals_call.bpm = 0 \/ vitals_call.confidence < 20)) =>
        /\ diagnosis.bpm_history = vitals_call.before.bpm_history
        /\ diagnosis.stress_history = vitals_call.before.stress_history
        /\ vitals_call.result.fatigue_risk = "Unknown"
        /\ vitals_call.result.health_status = "No data"
        /\ vitals_call.result.heart_rate = 0
        /\ vitals_call.result.confidence = 0

\* a non-zero bpm rejected for its confidence alone, on non-empty histories
C2_Witness ==
    /\ vitals_call.made
    /\ vitals_call.bpm # 0
    /\ vitals_call.confidence < 20
    /\ Len(diagnosis.bpm_history) >= 2

(***************************************************************************)
(* C3: for an accepted estimate health_status is "Warning" exactly when    *)
(* bpm > 100 or bpm < 50 and "Normal" otherwise, and the first alert is    *)
(* "Elevated heart rate", "Low heart rate" or "Normal heart rate"          *)
(* accordingly, whatever the histories hold.                               *)
(***************************************************************************)
C3_HealthStatusFromBpm ==
    LastAccepted =>
        /\ (vitals_call.bpm > 10000 \/ vitals_call.bpm < 5000) =>
              vitals_call.result.health_status = "Warning"
        /\ (vitals_call.bpm <= 10000 /\ vitals_call.bpm >= 5000) =>
              vitals_call.result.health_status = "Normal"
        /\ vitals_call.bpm > 10000 =>
              vitals_call.result.alerts[1] = "Elevated heart rate"
        /\ vitals_call.bpm < 5000 =>
              vitals_call.result.alerts[1] = "Low heart rate"
        /\ (vitals_call.bpm <= 10000 /\ vitals_call.bpm >= 5000) =>
              vitals_call.result.alerts[1] = "Normal heart rate"

\* a low heart rate accepted while stress is high and the trend is flagged:
\* the later rules ran and health_status is still the heart-rate rule's
C3_Witness ==
    /\ LastAccepted
    /\ vitals_call.bpm < 5000
    /\ vitals_call.result.health_status = "Warning"
    /\ FatigueAlerted

(***************************************************************************)
(* C4 as stated: after 8 accepted estimates from an empty history, if the  *)
(* mean of the first four is at least 8 BPM above the mean of the last     *)
(* four, the eighth snapshot has the alert "Possible fatigue detected" and *)
(* fatigue_risk "High".                                                    *)
(***************************************************************************)
C4_Original ==
    (LastAccepted /\ Len(diagnosis.bpm_history) = 8
       /\ Sum(SubSeq(diagnosis.bpm_history, 1, 4))
            - Sum(SubSeq(diagnosis.bpm_history, 5, 8)) >= 4 * 800) =>
        (FatigueAlerted /\ vitals_call.result.fatigue_risk = "High")

(***************************************************************************)
(* C4 amended: after 8 accepted estimates from an empty history, if the    *)
(* mean of the first four is more than 8 BPM above the mean of the last    *)
(* four, the eighth snapshot has the alert "Possible fatigue detected" and *)
(* fatigue_risk "High".                                                    *)
(***************************************************************************)
C4_FatigueAfterEight ==
    (LastAccepted /\ Len(diagnosis.bpm_history) = 8
       /\ Sum(SubSeq(diagnosis.bpm_history, 1, 4))
            - Sum(SubSeq(diagnosis.bpm_history, 5, 8)) > 4 * 800) =>
        (FatigueAlerted /\ vitals_call.result.fatigue_risk = "High")

\* eight accepted estimates, the first four well above the last four
C4_Witness ==
    /\ LastAccepted
    /\ Len(diagnosis.bpm_history) = 8
    /\ Sum(SubSeq(diagnosis.bpm_history, 1, 4))
         - Sum(SubSeq(diagnosis.bpm_history, 5, 8)) > 4 * 800
    /\ FatigueAlerted

(***************************************************************************)
(* C5: the first accepted estimate on an empty history with                *)
(* 50 <= bpm <= 100 and confidence >= 0.5 yields the alerts                *)
(* <<"Normal heart rate", "Low stress">>, health_status "Normal",          *)
(* fatigue_risk "Low" and heart_rate = bpm rounded to one decimal; and     *)
(* every accepted snapshot's alerts are one heart-rate alert, then one     *)
(* stress alert, then at most one fatigue alert.                           *)
(***************************************************************************)
C5_FirstNormalSnapshot ==
    LET r == vitals_call.result
    IN  /\ (LastAccepted /\ Len(vitals_call.before.bpm_history) = 0
              /\ vitals_call.bpm >= 5000 /\ vitals_call.bpm <= 10000
              /\ vitals_call.confidence >= 50) =>
              /\ r.alerts = <<"Normal heart rate", "Low stress">>
              /\ r.health_status = "Normal"
              /\ r.fatigue_risk = "Low"
              /\ r.heart_rate % 10 = 0
              /\ 2 * r.heart_rate >= 2 * vitals_call.bpm - 10
              /\ 2 * r.heart_rate <= 2 * vitals_call.bpm + 10
        /\ LastAccepted =>
              /\ Len(r.alerts) \in {2, 3}
              /\ r.alerts[1] \in
                   {"Elevated heart rate", "Low heart rate", "Normal heart rate"}
              /\ r.alerts[2] \in
                   {"High stress detected", "Moderate stress", "Low stress"}
              /\ Len(r.alerts) = 3 => r.alerts[3] = "Possible fatigue detected"

\* the first estimate is accepted in the normal range at confidence 0.5
\* exactly, with a bpm that rounding changes
C5_Witness ==
    /\ LastAccepted
    /\ Len(vitals_call.before.bpm_history) = 0
    /\ vitals_call.bpm = 7826
    /\ vitals_call.result.heart_rate = 7830
    /\ vitals_call.confidence >= 50

(***************************************************************************)
(* C6: fatigue_risk is "High" if the fatigue trend is flagged or the mean  *)
(* of the stress history exceeds 0.7, "Medium" if the mean is above 0.5    *)
(* and at most 0.7 and no trend is flagged, and "Low" otherwise; a flagged *)
(* trend gives "High" whatever the stress rule had set.                    *)
(***************************************************************************)
C6_FatigueRiskEscalates ==
    LET total == Sum(diagnosis.stress_history)
        n == Len(diagnosis.stress_history)
        risk == vitals_call.result.fatigue_risk
    IN  LastAccepted =>
          /\ (FatigueAlerted \/ total > 70 * n) => risk = "High"
          /\ (~FatigueAlerted /\ total > 50 * n /\ total <= 70 * n) => risk = "Medium"
          /\ (~FatigueAlerted /\ total <= 50 * n) => risk = "Low"

\* a flagged trend while the stress rule alone would have said "Medium"
C6_Witness ==
    /\ LastAccepted
    /\ FatigueAlerted
    /\ Sum(diagnosis.stress_history) > 50 * Len(diagnosis.stress_history)
    /\ Sum(diagnosis.stress_history) <= 70 * Len(diagnosis.stress_history)
    /\ vitals_call.result.alerts[2] = "Moderate stress"
    /\ vitals_call.result.fatigue_risk = "High"

(***************************************************************************)
(* C9: in every state of a monitoring session the signal buffer holds only *)
(* genuine measurements: a tick with no face, or with an extractor result  *)
(* of 0, appends nothing, so every buffered value is strictly positive.    *)
(***************************************************************************)
C9_BufferHoldsGenuineSamples ==
    \A id \in SessionIds :
        sessions[id] # <<>> =>
            \A i \in 1..Len(sessions[id][1].rppg_processor.signal_buffer) :
                sessions[id][1].rppg_processor.signal_buffer[i] > 0

\* a frame with a face whose extracted sample was the sentinel 0 has just
\* been processed by a session that already holds samples
C9_Witness ==
    /\ frame_call.made
    /\ frame_call.returned
    /\ frame_call.face_detected
    /\ frame_call.sample = 0
    /\ Len(sessions[frame_call.id][1].rppg_processor.signal_buffer) >= 2

(***************************************************************************)
(* C10: stopping is idempotent: a stop request (stop() on the session      *)
(* object, or the stop endpoint) for a session that was stopped the same   *)
(* way before succeeds and leaves the session, the registry and the stored *)
(* session record as they were, with the camera released.                  *)
(***************************************************************************)
C10_StopIdempotent ==
    (stop_call.made /\ stop_call.repeated) =>
        /\ stop_call.outcome = "ok"
        /\ stop_call.after = stop_call.before
        /\ stop_call.after.session[1].camera.cap = "released"

(***************************************************************************)
(* C11: sessions are independent: a step changes a session object only     *)
(* when it is a step of that session (its start, its stop, one of its      *)
(* ticks, or a step of one of its advice tasks), so whatever happens to    *)
(* session A, stopping it and an advice task of A ending after the stop    *)
(* included, leaves B's buffer, histories, last diagnosis, frame count and *)
(* advice state as they were.                                              *)
(***************************************************************************)
TaskStepOf(b) ==
    \E i \in 1..Len(tasks) :
        /\ tasks[i].session = b
        /\ \/ tasks' = RemoveAt(tasks, i)
           \/ tasks[i].pc = "created" /\ tasks' = [tasks EXCEPT ![i].pc = "calling"]

ActedOn(b) ==
    \/ frame_call' # frame_call /\ frame_call'.id = b
    \/ stop_call' # stop_call /\ stop_call'.id = b
    \/ used_ids' # used_ids /\ http'.id = b
    \/ TaskStepOf(b)

C11_SessionsIndependent ==
    [][\A b \in SessionIds : sessions'[b] # sessions[b] => ActedOn(b)]_vars

\* "s1" was stopped while its advice task was at the backend call, the task
\* has since ended and stored its advice, and "s2" holds samples of its own
C11_Witness ==
    /\ stop_call.made /\ stop_call.id = "s1" /\ stop_call.outcome = "ok"
    /\ stop_call.after.session[1].diagnosis.ai_processing
    /\ ~sessions["s1"][1].diagnosis.ai_processing
    /\ sessions["s1"][1].diagnosis.last_ai_advice = BackendAdvice
    /\ sessions["s2"] # <<>>
    /\ Len(sessions["s2"][1].rppg_processor.signal_buffer) >= 1
    /\ sessions["s2"][1].diagnosis = NewDiagnosis

(***************************************************************************)
(* C12: a diagnosis snapshot is immutable once process_frame has returned  *)
(* it.  The dictionary process_frame returns under 'diagnosis' is the very *)
(* object self.last_diagnosis refers to (the one analyze_vitals just made, *)
(* or the one kept from an earlier tick), so the snapshot handed out by    *)
(* the last tick that returned one is the session's last_diagnosis: it     *)
(* still has every field as it was returned.                               *)
(***************************************************************************)
C12_SnapshotImmutable ==
    (frame_call.made /\ frame_call.returned /\ frame_call.diagnosis # <<>>) =>
        sessions[frame_call.id][1].last_diagnosis = frame_call.diagnosis

(***************************************************************************)
(* C13: a skipped tick has no effect: process_frame on a session that is   *)
(* not running, or whose camera yields no frame, returns no result and     *)
(* leaves the session (frame_count, signal buffer, both histories,         *)
(* last_diagnosis, the advice timers), the stored rows and the advice      *)
(* tasks as they were.                                                     *)
(***************************************************************************)
C13_SkippedTickNoEffect ==
    [][(frame_call' # frame_call
          /\ (~frame_call'.running \/ ~frame_call'.frame)) =>
            /\ ~frame_call'.returned
            /\ sessions' = sessions
            /\ db_physio' = db_physio
            /\ tasks' = tasks]_vars

\* a running session that holds samples was ticked while its camera gave no
\* frame
C13_Witness ==
    /\ frame_call.made
    /\ ~frame_call.returned
    /\ frame_call.running
    /\ ~frame_call.frame
    /\ sessions[frame_call.id][1].frame_count >= 2
    /\ Len(sessions[frame_call.id][1].rppg_processor.signal_buffer) >= 2

(***************************************************************************)
(* C14: no exception raised while a tick is processed (in signal           *)
(* extraction, estimation, diagnosis or persistence) terminates the        *)
(* session: after a tick that raised, the frame loop of the session, which *)
(* is still running, goes on.                                              *)
(***************************************************************************)
C14_ExceptionKeepsLoop ==
    \A id \in SessionIds :
        (frame_call.made /\ frame_call.id = id
           /\ ~frame_call.returned /\ frame_call.running /\ frame_call.frame
           /\ sessions[id][1].is_running) =>
            loops[id] = "running"

(***************************************************************************)
(* C15: classification is deterministic: two diagnosis objects whose       *)
(* heart-rate and stress histories are equal and which are given the same  *)
(* (bpm, confidence) return the same alerts, health_status and             *)
(* fatigue_risk, whatever their advice state and the number of estimates   *)
(* each has rejected before (the clock is no input of analyze_vitals).     *)
(***************************************************************************)
C15_ClassificationDeterministic ==
    (/\ vitals_call.made /\ twin.call.made
     /\ vitals_call.bpm = twin.call.bpm
     /\ vitals_call.confidence = twin.call.confidence
     /\ vitals_call.before.bpm_history = twin.call.before.bpm_history
     /\ vitals_call.before.stress_history = twin.call.before.stress_history) =>
        /\ vitals_call.result.alerts = twin.call.result.alerts
        /\ vitals_call.result.health_status = twin.call.result.health_status
        /\ vitals_call.result.fatigue_risk = twin.call.result.fatigue_risk

\* the two objects classified the same accepted estimate on equal histories
\* that flag the fatigue trend, the second with an advice of its own, after
\* more calls (it rejected estimates)
C15_Witness ==
    /\ vitals_call.made /\ twin.call.made
    /\ vitals_call.bpm = twin.call.bpm /\ vitals_call.bpm # 0
    /\ vitals_call.confidence = twin.call.confidence
    /\ vitals_call.before.bpm_history = twin.call.before.bpm_history
    /\ vitals_call.before.stress_history = twin.call.before.stress_history
    /\ Len(vitals_call.before.bpm_history) >= 7
    /\ FatigueAlerted
    /\ twin.call.n > vitals_call.n
    /\ twin.call.result.ai_advice # vitals_call.result.ai_advice

(***************************************************************************)
(* C16: for a ready window the confidence compute_heart_rate returns is a  *)
(* number in [0, 1], and a flat window yields a confidence of about 0      *)
(* (below the 0.2 floor), never nan and never an error, so that            *)
(* analyze_vitals rejects the estimate of a flat window.                   *)
(***************************************************************************)
C16_ConfidenceInUnitInterval ==
    (hr_call.proc = "fast" /\ hr_call.len >= FastReadyThreshold) =>
        /\ ~hr_call.result.raised
        /\ hr_call.result.confidence \in 0..100
        /\ hr_call.flat =>
              /\ hr_call.result.confidence < 20
              /\ Rejects(hr_call.result.bpm, hr_call.result.confidence)

(***************************************************************************)
(* C17: for a full window of 120 samples at 30 frames per second holding a *)
(* pure sinusoid of frequency f, 0.8 <= f <= 3.0 Hz, compute_heart_rate    *)
(* returns a bpm within 2 BPM of f*60, for every such f.                   *)
(***************************************************************************)
C17_ToneWithinTwoBpm ==
    (hr_call.proc = "fast" /\ hr_call.len = DefaultWindowSize) =>
        Abs(hr_call.result.bpm - 60 * hr_call.tone) <= 200

(***************************************************************************)
(* C18: the session driver never invokes the spectral estimator on a       *)
(* window below the estimator's ready threshold: process_frame calls       *)
(* compute_heart_rate only when the signal buffer holds at least the 40    *)
(* samples compute_heart_rate itself requires.                             *)
(***************************************************************************)
C18_DriverChecksReady ==
    (frame_call.made /\ frame_call.returned /\ hr_call.proc = "fast") =>
        hr_call.len >= FastReadyThreshold

(***************************************************************************)
(* C19: when the bandpass filtering step fails on a ready window,          *)
(* compute_heart_rate goes on with the detrended signal and returns the    *)
(* spectral estimate computed from it instead of aborting; this holds for  *)
(* both estimators, RPPGProcessor and FastRPPGProcessor.                   *)
(***************************************************************************)
C19_FilterFailureFallsBack ==
    (/\ hr_call.proc \in {"fast", "core"}
     /\ hr_call.fail = "filtfilt"
     /\ hr_call.len >= (IF hr_call.proc = "fast" THEN FastReadyThreshold
                        ELSE core.window_size)) =>
        /\ ~hr_call.result.raised
        /\ hr_call.result.stages =
              (IF hr_call.proc = "fast" THEN FastStages ELSE CoreStages)
        /\ hr_call.result.bpm \in
              {BinBpm(k, hr_call.len, DefaultFps) : k \in InBandBins(hr_call.len, DefaultFps)}

(***************************************************************************)
(* C20: extract_signal returns the sentinel 0 whenever the bounding        *)
(* rectangle of the forehead landmarks lacks positive width and height or  *)
(* does not lie fully inside the frame, a negative origin included; it     *)
(* returns the green-channel mean of the crop only for a rectangle with    *)
(* 0 <= x, 0 <= y, x + w <= frame width and y + h <= frame height; and it  *)
(* never mutates the buffer.                                               *)
(***************************************************************************)
RectInsideFrame(r) ==
    /\ r.w > 0 /\ r.h > 0
    /\ 0 <= r.x /\ 0 <= r.y
    /\ r.x + r.w <= FrameWidth
    /\ r.y + r.h <= FrameHeight

C20_ExtractOnlyInsideFrame ==
    extract_call.made =>
        /\ ~RectInsideFrame(extract_call.rect) => extract_call.result.sentinel
        /\ ~extract_call.result.sentinel => RectInsideFrame(extract_call.rect)
        /\ extract_call.after = extract_call.before

(***************************************************************************)
(* C21: the fatigue trend is flagged only when the heart-rate history      *)
(* holds at least 8 entries, and then exactly when the mean of entries 5   *)
(* to 8 from the end exceeds the mean of the last 4 entries by more than   *)
(* 8 BPM; entries older than the last 8 never influence the flag.          *)
(***************************************************************************)
C21_FatigueFromLastEight ==
    LastAccepted =>
        LET h == diagnosis.bpm_history
            n == Len(h)
        IN  FatigueAlerted <=>
              /\ n >= 8
              /\ (h[n - 7] + h[n - 6] + h[n - 5] + h[n - 4])
                   - (h[n - 3] + h[n - 2] + h[n - 1] + h[n]) > 4 * 800

\* nine entries kept, the oldest one far above the other eight: not flagged
C21_Witness ==
    /\ LastAccepted
    /\ Len(diagnosis.bpm_history) = 9
    /\ diagnosis.bpm_history[1] - diagnosis.bpm_history[2] > 4 * 800
    /\ ~FatigueAlerted

(***************************************************************************)
(* C22: after any sequence of analyze_vitals calls the heart-rate history  *)
(* and the stress history have the same length, at most 15; an accepted    *)
(* estimate appends exactly one entry to each (bpm, and                    *)
(* 1 - min(confidence, 1)), evicting the oldest when full, and the         *)
(* snapshot's update_count is min(accepted estimates so far, 15).          *)
(***************************************************************************)
C22_HistoriesInStep ==
    /\ Len(diagnosis.bpm_history) = Len(diagnosis.stress_history)
    /\ Len(diagnosis.bpm_history) <= 15
    /\ LastAccepted =>
          LET stress == IF vitals_call.confidence >= 100 THEN 0
                        ELSE 100 - vitals_call.confidence
          IN  /\ diagnosis.bpm_history =
                    LastN(Append(vitals_call.before.bpm_history, vitals_call.bpm), 15)
              /\ diagnosis.stress_history =
                    LastN(Append(vitals_call.before.stress_history, stress), 15)
              /\ vitals_call.result.update_count =
                    (IF vitals_call.accepted <= 15 THEN vitals_call.accepted ELSE 15)

\* an accepted estimate arriving on full histories: the oldest entry, which
\* differs from the new one, is evicted
C22_Witness ==
    /\ LastAccepted
    /\ vitals_call.accepted > 15
    /\ Len(vitals_call.before.bpm_history) = 15
    /\ vitals_call.before.bpm_history[1] # vitals_call.bpm
    /\ vitals_call.confidence > 100

(***************************************************************************)
(* C23: every result of compute_heart_rate is either (0, 0) or has a bpm   *)
(* equal to 60 times a strictly positive spectrum bin frequency inside     *)
(* [0.8, 3.0] Hz, hence 48 <= bpm <= 180; when no bin falls in that band   *)
(* the result is (0, 0).                                                   *)
(***************************************************************************)
C23_BpmFromInBandBin ==
    (hr_call.proc \in {"fast", "core"} /\ ~hr_call.result.raised) =>
        LET L == hr_call.len
            band == {k \in 1..L : /\ 2 * k < L
                                  /\ 80 * L <= 100 * k * DefaultFps
                                  /\ 100 * k * DefaultFps <= 300 * L}
            zero == hr_call.result.bpm = 0 /\ hr_call.result.confidence = 0
        IN  /\ \/ zero
               \/ /\ \E k \in band :
                        hr_call.result.bpm = (6000 * k * DefaultFps) \div L
                  /\ 4800 <= hr_call.result.bpm
                  /\ hr_call.result.bpm <= 18000
            /\ band = {} => zero

\* a ready window on which every stage succeeds and whose spectrum has no
\* bin inside the band
C23_Witness ==
    /\ hr_call.proc = "core"
    /\ hr_call.len >= core.window_size
    /\ hr_call.len > 0
    /\ hr_call.fail = "none"
    /\ InBandBins(hr_call.len, DefaultFps) = {}
    /\ hr_call.result.stages = CoreStages
    /\ hr_call.result.bpm = 0

C25_LaunchesCoolDown ==
    [][\A id \in SessionIds :
          (sessions[id] # <<>> /\ sessions'[id] # <<>>) =>
             LET s == sessions[id][1]
                 t == sessions'[id][1]
                 launched == t.ai_update_counter # s.ai_update_counter
             IN  /\ t.last_ai_update_time # s.last_ai_update_time => launched
                 /\ (Len(tasks') > Len(tasks) /\ tasks'[Len(tasks')].session = id)
                       => launched
                 /\ launched =>
                       /\ t.ai_update_counter = s.ai_update_counter + 1
                       /\ t.last_ai_update_time = now
                       /\ s.ai_update_counter >= 1 => now - s.last_ai_update_time > 10
                       /\ frame_call'.id = id
                       /\ frame_call'.returned
                       /\ frame_call'.diagnosis # <<>>
                       /\ frame_call'.diagnosis[1].heart_rate > 0
                       /\ tasks' = Append(tasks, tasks'[Len(tasks')])
                       /\ tasks'[Len(tasks')].pc = "created"]_vars

\* a second advice task has been launched, on a later tick than the first
C25_Witness ==
    /\ sessions["s1"] # <<>>
    /\ sessions["s1"][1].ai_update_counter = 2
    /\ now - sessions["s1"][1].last_ai_update_time = 0
    /\ frame_call.made /\ frame_call.returned
    /\ frame_call.ai_update_count = 2

(***************************************************************************)
(* C26: repeated identical vitals do not re-trigger the advice backend: a  *)
(* call of get_ai_medical_advice_async whose vitals have the hash          *)
(* (heart_rate to one decimal, stress_level to two decimals,               *)
(* health_status) of the vitals of the last backend invocation returns the *)
(* stored advice and does not invoke the backend again.                    *)
(***************************************************************************)
C26_SameVitalsNotRepeated ==
    (/\ advice_call.made
     /\ advice_call.before.last_vital_hash =
           << <<10 * RoundDiv(advice_call.vital_signs.heart_rate, 10),
                advice_call.vital_signs.stress_level,
                advice_call.vital_signs.health_status>> >>) =>
        /\ ~advice_call.invoked
        /\ advice_call.after.last_ai_advice = advice_call.before.last_ai_advice
        /\ advice_call.after.last_ai_call_time = advice_call.before.last_ai_call_time
        /\ advice_call.after.ai_processing = advice_call.before.ai_processing

\* a call that neither the cooldown nor a call in flight would have stopped
\* was stopped because its vitals are those of the last invocation
C26_Witness ==
    /\ advice_call.made
    /\ advice_call.gate = "hash"
    /\ advice_call.at - advice_call.before.last_ai_call_time > 10
    /\ ~advice_call.before.ai_processing
    /\ ~advice_call.invoked

(***************************************************************************)
(* C27: for each diagnosis instance at most one advice backend call is in  *)
(* flight at any time, under any interleaving of advice tasks:             *)
(* ai_processing is true exactly while a backend call is in flight (so it  *)
(* is false again once the call has ended, by returning or by raising),    *)
(* and a task that finds it true returns the stored advice without calling *)
(* the backend.                                                            *)
(***************************************************************************)
InFlight(id) == {i \in 1..Len(tasks) : tasks[i].session = id /\ tasks[i].pc = "calling"}

C27_OneBackendCallInFlight ==
    /\ \A id \in SessionIds :
          sessions[id] # <<>> =>
             /\ Cardinality(InFlight(id)) <= 1
             /\ sessions[id][1].diagnosis.ai_processing <=> InFlight(id) # {}
    /\ (advice_call.made /\ advice_call.before.ai_processing) =>
          /\ ~advice_call.invoked
          /\ advice_call.after = advice_call.before

\* while a backend call was in flight a second task ran, was stopped by
\* ai_processing alone, and the first call is still in flight
C27_Witness ==
    /\ advice_call.made
    /\ advice_call.gate = "processing"
    /\ InFlight(advice_call.session) # {}
    /\ sessions[advice_call.session][1].ai_update_counter = 2

(***************************************************************************)
(* C28: in every reachable state of the session registry every registered  *)
(* session is running: a session whose start() failed is never registered, *)
(* a stop sets is_running to false and removes the session in one step, a  *)
(* stop request for an id that is not registered is answered with          *)
(* 'Session not found' and changes nothing, and after a stop the session's *)
(* frame loop exits at its next iteration.                                 *)
(***************************************************************************)
RegisteredAreRunning ==
    \A id \in monitoring_sessions :
        sessions[id] # <<>> /\ sessions[id][1].is_running

FailedStartNotRegistered ==
    (http.op = "start" /\ http.status # 200) =>
        (http.id \notin monitoring_sessions /\ sessions[http.id] = <<>>)

StopRemoves ==
    (stop_call.made /\ stop_call.via = "endpoint" /\ stop_call.before.registered) =>
        /\ ~stop_call.after.session[1].is_running
        /\ ~stop_call.after.registered

UnknownStopChangesNothing ==
    (stop_call.made /\ stop_call.via = "endpoint" /\ ~stop_call.before.registered) =>
        /\ stop_call.outcome = "not found"
        /\ stop_call.after = stop_call.before

StoppedLoopExits ==
    \A id \in SessionIds :
        (/\ loops[id] = "running"
         /\ sessions[id] # <<>>
         /\ ~sessions[id][1].is_running
         /\ \/ loops'[id] # loops[id]
            \/ frame_call' # frame_call /\ frame_call'.id = id) =>
            /\ loops'[id] = "ended"
            /\ sessions'[id] = sessions[id]

C28_RegisteredSessionsRun ==
    [][/\ RegisteredAreRunning'
       /\ FailedStartNotRegistered'
       /\ StopRemoves'
       /\ UnknownStopChangesNothing'
       /\ StoppedLoopExits]_vars

(***************************************************************************)
(* C29: no diagnosis is produced from too little data: last_diagnosis is   *)
(* absent until the signal buffer holds at least 40 genuine samples, so    *)
(* the first diagnosis is not produced before the tick at which            *)
(* frame_count is 45 (after which frame_count is 46), whatever the pattern *)
(* of ticks with and without a face; a tick emits no diagnosis earlier.    *)
(***************************************************************************)
C29_NoDiagnosisBeforeWarmUp ==
    /\ \A id \in SessionIds :
          (sessions[id] # <<>> /\ sessions[id][1].last_diagnosis # <<>>) =>
              /\ Len(sessions[id][1].rppg_processor.signal_buffer) >= FastReadyThreshold
              /\ \A k \in 1..Len(sessions[id][1].rppg_processor.signal_buffer) :
                    IsGenuine(sessions[id][1].rppg_processor.signal_buffer[k])
              /\ sessions[id][1].frame_count >= 46
    /\ (frame_call.made /\ frame_call.returned /\ frame_call.diagnosis # <<>>) =>
          frame_call.frame_count >= 46

\* the first diagnosis, produced by the tick at frame_count 45 from a window
\* that missed some ticks
C29_Witness ==
    /\ sessions["s1"] # <<>>
    /\ sessions["s1"][1].last_diagnosis # <<>>
    /\ sessions["s1"][1].frame_count = 46
    /\ Len(sessions["s1"][1].rppg_processor.signal_buffer) = FastReadyThreshold
    /\ frame_call.made /\ frame_call.returned /\ frame_call.diagnosis # <<>>

(***************************************************************************)
(* C30: physiological data is persisted exactly once for each estimate     *)
(* that analyze_vitals accepted on that tick (snapshot heart_rate > 0) and *)
(* never otherwise: a tick without an estimate, an estimate with bpm 0,    *)
(* and an estimate rejected for its confidence below 0.2, whose 'No data'  *)
(* snapshot still replaces last_diagnosis, write nothing, and neither does *)
(* any step that is not a tick.                                            *)
(***************************************************************************)
\* the step is a tick of a session that returned a snapshot
TickStep ==
    /\ frame_call' # frame_call
    /\ frame_call'.made
    /\ frame_call'.returned

\* the tick called the estimator and analyze_vitals accepted its result
AcceptedOnTick ==
    /\ TickStep
    /\ hr_call'.proc = "fast"
    /\ ~Rejects(hr_call'.result.bpm, hr_call'.result.confidence)

\* the tick called analyze_vitals, which rejected the estimate
RejectedOnTick ==
    /\ TickStep
    /\ hr_call'.proc = "fast"
    /\ hr_call'.result.bpm > 0
    /\ Rejects(hr_call'.result.bpm, hr_call'.result.confidence)

====
